---- MODULE Spec2Model ----
(***************************************************************************)
(* The workflow engine of the portal automation (WorkflowEngine), its      *)
(* three phase agents (LoginAgent, NavigationAgent, DownloadAgent) and the *)
(* result contract of ActionExecutor.execute_action, as a state machine.   *)
(* Browser, portal page, vision service and artifact store are the         *)
(* environment: what they answer is drawn with \E in the action that asks. *)
(***************************************************************************)
EXTENDS Integers, Sequences, FiniteSets, TLC

\* Longest workflow (number of steps) the model draws.
MaxSteps == 2

\* Largest max_retries the model draws.
MaxRetries == 2

\* The most selectors, hints and open pages drawn.
MaxSelectors == 2

MaxHints == 2

MaxPages == 3

\* A selector either matches an element of the page or matches none.  A hint
\* is "absent" (no element has the text), "overlay" (only the script of
\* strategy 3 finds it) or "visible" (the text selectors find it as well).
HintKinds == {"absent", "overlay", "visible"}

----------------------------------------------------------------------------
\* Text: a string is a sequence of one-character strings.

\* str.lower() on the letters that occur in the model's texts.
LowerChar(c) ==
    CASE c = "A" -> "a" [] c = "C" -> "c" [] c = "D" -> "d" [] c = "E" -> "e"
      [] c = "F" -> "f" [] c = "L" -> "l" [] c = "M" -> "m" [] c = "T" -> "t"
      [] c = "N" -> "n" [] c = "O" -> "o" [] c = "P" -> "p" [] c = "R" -> "r"
      [] c = "S" -> "s" [] c = "U" -> "u" [] c = "W" -> "w"
      [] OTHER -> c

Lower(s) == [k \in 1..Len(s) |-> LowerChar(s[k])]

\* Python's `sub in s` on strings.
Contains(s, sub) ==
    \E k \in 0..(Len(s) - Len(sub)) : SubSeq(s, k + 1, k + Len(sub)) = sub

\* any(w in s for w in words)
AnyIn(words, s) == \E w \in words : Contains(s, w)

----------------------------------------------------------------------------
\* Enumerations.

WorkflowState ==
    {"init", "login", "navigate", "find_application", "check_status",
     "download", "complete", "failed"}

ApplicationStatus ==
    {"pending", "under_review", "accepted", "rejected", "waitlisted",
     "offer_ready", "unknown"}

ActionType ==
    {"find_and_click", "find_and_fill", "wait_for_load", "wait_for_navigation",
     "capture_download", "switch_to_new_tab", "press_key", "scroll", "wait"}

\* An ActionStep, reduced to the fields the agents and the executor's result
\* contract read.
ActionStep(a, opt, td, ont) ==
    [action |-> a, optional |-> opt, triggers_download |-> td, opens_new_tab |-> ont]

\* A WorkflowConfig: its steps, max_retries and retry_delay.
WorkflowConfig(steps, retries, delay) ==
    [steps |-> steps, max_retries |-> retries, retry_delay |-> delay]

\* retry_delay when the config file does not set it.
DefaultRetryDelay == 2

\* The value the phase variables hold while no workflow is loaded.
NoWorkflow == WorkflowConfig(<< >>, 0, 0)

----------------------------------------------------------------------------
\* ActionExecutor.execute_action

\* What the handler of a step can do: return a truthy value ("ok"), return
\* False or None ("fail"), or raise ("raise").  _find_and_click,
\* _find_and_fill, _wait_for_navigation, _capture_download and
\* _switch_to_new_tab catch every exception and return; wait_for_load_state
\* and keyboard.press are awaited bare; scroll_to_bottom and wait do not fail.
HandlerOutcomes(step) ==
    CASE step.action \in {"find_and_click", "find_and_fill", "wait_for_navigation",
                          "capture_download", "switch_to_new_tab"} -> {"ok", "fail"}
      [] step.action \in {"wait_for_load", "press_key"} -> {"ok", "raise"}
      [] OTHER -> {"ok"}

\* The dict execute_action returns: has_data says whether the "data" key is
\* present, has_error whether the "error" key is.
ActionResult(success, has_data, data, has_error) ==
    [success |-> success, has_data |-> has_data, data |-> data, has_error |-> has_error]

ExecuteActionNoOptional(step, raw) ==
    IF raw = "raise"
    THEN ActionResult(FALSE, FALSE, "none", TRUE)
    ELSE IF step.action = "capture_download"
         THEN ActionResult(raw = "ok", TRUE, IF raw = "ok" THEN "captured" ELSE "none", FALSE)
         ELSE ActionResult(raw = "ok", FALSE, "none", FALSE)

ExecuteAction(step, raw) ==
    IF raw = "raise"
    THEN IF step.optional
         THEN ActionResult(TRUE, FALSE, "none", FALSE)
         ELSE ActionResult(FALSE, FALSE, "none", TRUE)
    ELSE IF step.action = "capture_download"
         THEN ActionResult(raw = "ok", TRUE, IF raw = "ok" THEN "captured" ELSE "none", FALSE)
         ELSE ActionResult(raw = "ok", FALSE, "none", FALSE)

----------------------------------------------------------------------------
\* The configurations and page contents the model draws.

SeqsUpTo(S, n) == UNION {[1..k -> S] : k \in 0..n}

Workflows(S) ==
    {WorkflowConfig(steps, r, DefaultRetryDelay) :
        steps \in SeqsUpTo(S, MaxSteps), r \in 0..MaxRetries}

LoginStepShapes ==
    {ActionStep(a, opt, FALSE, FALSE) :
        a \in {"find_and_fill", "wait_for_load", "wait_for_navigation"},
        opt \in BOOLEAN}

NavigationStepShapes ==
    {ActionStep(a, opt, FALSE, FALSE) :
        a \in {"find_and_click", "press_key", "scroll"},
        opt \in BOOLEAN}

DownloadStepShapes ==
    {ActionStep("find_and_click", opt, td, ont) : opt \in BOOLEAN, td \in BOOLEAN, ont \in BOOLEAN}
    \cup {ActionStep("capture_download", opt, FALSE, FALSE) : opt \in BOOLEAN}

\* Texts a portal page shows.
PageTexts ==
    {<<>>,
     <<"S", "i", "g", "n", " ", "i", "n", " ", "P", "a", "s", "s", "w", "o", "r", "d">>,
     <<"S", "i", "g", "n", " ", "i", "n", " ", "D", "a", "s", "h", "b", "o", "a", "r", "d">>,
     <<"W", "e", "l", "c", "o", "m", "e">>,
     <<"M", "y", " ", "P", "o", "r", "t", "a", "l">>,
     <<"C", "o", "n", "d", "i", "t", "i", "o", "n", "a", "l", " ", "O", "f", "f", "e", "r">>,
     <<"O", "f", "f", "e", "r", " ", "p", "e", "n", "d", "i", "n", "g">>,
     <<"A", "c", "c", "e", "p", "t", "e", "d">>,
     <<"D", "e", "c", "l", "i", "n", "e", "d">>,
     <<"U", "n", "d", "e", "r", " ", "R", "e", "v", "i", "e", "w">>}

\* Descriptions the vision service gives; the empty text is what
\* extract_information returns when the call fails.
VisionTexts ==
    {<<>>,
     <<"C", "o", "n", "d", "i", "t", "i", "o", "n", "a", "l", " ", "O", "f", "f", "e", "r">>,
     <<"O", "f", "f", "e", "r", " ", "r", "e", "j", "e", "c", "t", "e", "d">>,
     <<"W", "a", "i", "t", "l", "i", "s", "t", " ", "o", "f", "f", "e", "r">>,
     <<"A", "c", "c", "e", "p", "t", "e", "d">>,
     <<"A", "d", "m", "i", "t", "t", "e", "d">>,
     <<"N", "o", "t", " ", "a", "c", "c", "e", "p", "t", "e", "d">>,
     <<"D", "e", "c", "l", "i", "n", "e", "d">>,
     <<"U", "n", "d", "e", "r", " ", "R", "e", "v", "i", "e", "w">>,
     <<"S", "u", "b", "m", "i", "t", "t", "e", "d">>,
     <<"N", "o", " ", "d", "e", "c", "i", "s", "i", "o", "n">>}

\* What the call of the vision model does inside extract_information: it
\* gives a text, or it raises and the text is lost.
VisionReplies ==
    {[raised |-> r, text |-> t] : r \in BOOLEAN, t \in VisionTexts}

\* status_detection tables of a school config.
StatusDetectionConfig(o, a, r, p) ==
    [offer_ready |-> o, accepted |-> a, rejected |-> r, pending |-> p]

StatusTables ==
    {StatusDetectionConfig({}, {}, {}, {}),
     StatusDetectionConfig({}, {<<"O", "F", "F", "E", "R">>}, {<<"P", "e", "n", "d", "i", "n", "g">>}, {<<"O", "f", "f", "e", "r">>}),
     StatusDetectionConfig({<<"O", "f", "f", "e", "r">>}, {<<"A", "c", "c", "e", "p", "t", "e", "d">>}, {<<"D", "e", "c", "l", "i", "n", "e", "d">>}, {<<"P", "e", "n", "d", "i", "n", "g">>})}

----------------------------------------------------------------------------
\* Pure decisions of the agents and the engine.

\* LoginAgent.execute_login, the verification after the steps: TRUE when the
\* attempt is to be treated as failed.
StillOnLoginPageAnyMarker(page_text) ==
    AnyIn({<<"s", "i", "g", "n", " ", "i", "n">>,
           <<"l", "o", "g", "i", "n">>,
           <<"u", "s", "e", "r", "n", "a", "m", "e">>,
           <<"p", "a", "s", "s", "w", "o", "r", "d">>}, Lower(page_text))

StillOnLoginPage(page_text) ==
    /\ AnyIn({<<"s", "i", "g", "n", " ", "i", "n">>,
            <<"l", "o", "g", "i", "n">>,
            <<"u", "s", "e", "r", "n", "a", "m", "e">>,
            <<"p", "a", "s", "s", "w", "o", "r", "d">>}, Lower(page_text))
    /\ ~AnyIn({<<"d", "a", "s", "h", "b", "o", "a", "r", "d">>,
             <<"w", "e", "l", "c", "o", "m", "e">>,
             <<"a", "p", "p", "l", "i", "c", "a", "t", "i", "o", "n", "s">>,
             <<"l", "o", "g", "o", "u", "t">>}, Lower(page_text))

\* VisionAgent.extract_information: the text of the reply, or the empty
\* text when the call raised.
ExtractInformationKeepsText(reply) == reply.text

ExtractInformation(reply) == IF reply.raised THEN << >> ELSE reply.text

\* NavigationAgent.extract_status: the first status, in priority order, one of
\* whose patterns occurs in the lower-cased page text; "None" when none does.
PatternStatusPendingFirst(table, page_text) ==
    LET hit(pats) == \E pat \in pats : Contains(Lower(page_text), Lower(pat))
    IN  IF hit(table.pending) THEN "pending"
        ELSE IF hit(table.offer_ready) THEN "offer_ready"
        ELSE IF hit(table.accepted) THEN "accepted"
        ELSE IF hit(table.rejected) THEN "rejected"
        ELSE "None"

PatternStatus(table, page_text) ==
    LET hit(pats) == \E pat \in pats : Contains(Lower(page_text), Lower(pat))
    IN  IF hit(table.offer_ready) THEN "offer_ready"
        ELSE IF hit(table.accepted) THEN "accepted"
        ELSE IF hit(table.rejected) THEN "rejected"
        ELSE IF hit(table.pending) THEN "pending"
        ELSE "None"

\* NavigationAgent.extract_status: the status inferred from the description
\* the vision service gave.
VisionStatusRejectedFirst(vision_result) ==
    LET v == Lower(vision_result)
    IN  IF AnyIn({<<"r", "e", "j", "e", "c", "t", "e", "d">>,
              <<"d", "e", "c", "l", "i", "n", "e", "d">>,
              <<"n", "o", "t", " ", "a", "c", "c", "e", "p", "t", "e", "d">>}, v) THEN "rejected"
        ELSE IF AnyIn({<<"o", "f", "f", "e", "r">>,
                   <<"c", "o", "n", "d", "i", "t", "i", "o", "n", "a", "l">>,
                   <<"u", "n", "c", "o", "n", "d", "i", "t", "i", "o", "n", "a", "l">>,
                   <<"a", "c", "c", "e", "p", "t", "a", "n", "c", "e">>}, v) THEN "offer_ready"
        ELSE IF AnyIn({<<"a", "c", "c", "e", "p", "t", "e", "d">>,
                   <<"e", "n", "r", "o", "l", "l", "e", "d">>,
                   <<"d", "e", "p", "o", "s", "i", "t">>}, v) THEN "accepted"
        ELSE "pending"

VisionStatus(vision_result) ==
    LET v == Lower(vision_result)
    IN  IF AnyIn({<<"o", "f", "f", "e", "r">>,
              <<"c", "o", "n", "d", "i", "t", "i", "o", "n", "a", "l">>,
              <<"u", "n", "c", "o", "n", "d", "i", "t", "i", "o", "n", "a", "l">>,
              <<"a", "c", "c", "e", "p", "t", "a", "n", "c", "e">>}, v) THEN "offer_ready"
        ELSE IF AnyIn({<<"a", "c", "c", "e", "p", "t", "e", "d">>,
                   <<"e", "n", "r", "o", "l", "l", "e", "d">>,
                   <<"d", "e", "p", "o", "s", "i", "t">>}, v) THEN "accepted"
        ELSE IF AnyIn({<<"r", "e", "j", "e", "c", "t", "e", "d">>,
                   <<"d", "e", "c", "l", "i", "n", "e", "d">>,
                   <<"n", "o", "t", " ", "a", "c", "c", "e", "p", "t", "e", "d">>}, v) THEN "rejected"
        ELSE "pending"

\* Whether extract_status calls VisionAgent.extract_information, given the
\* status the patterns gave: the call stands after the pattern loop, under
\* no condition.
VisionCalled(pattern_status) == TRUE

ExtractStatusPatternOnly(table, page_text, vision_result) ==
    PatternStatus(table, page_text)

ExtractStatus(table, page_text, vision_result) ==
    IF PatternStatus(table, page_text) # "None"
    THEN PatternStatus(table, page_text)
    ELSE VisionStatus(vision_result)

\* WorkflowEngine._parse_status
ParseStatus(text) ==
    LET t == Lower(text)
    IN  IF Contains(t, <<"a", "c", "c", "e", "p", "t", "e", "d">>) \/ Contains(t, <<"a", "d", "m", "i", "t", "t", "e", "d">>) THEN "accepted"
        ELSE IF Contains(t, <<"r", "e", "j", "e", "c", "t", "e", "d">>) \/ Contains(t, <<"d", "e", "n", "i", "e", "d">>) THEN "rejected"
        ELSE IF Contains(t, <<"w", "a", "i", "t", "l", "i", "s", "t">>) THEN "waitlisted"
        ELSE IF Contains(t, <<"o", "f", "f", "e", "r">>) \/ Contains(t, <<"a", "d", "m", "i", "s", "s", "i", "o", "n", " ", "l", "e", "t", "t", "e", "r">>) THEN "offer_ready"
        ELSE IF Contains(t, <<"r", "e", "v", "i", "e", "w">>) \/ Contains(t, <<"r", "e", "v", "i", "e", "w", "i", "n", "g">>) THEN "under_review"
        ELSE IF Contains(t, <<"p", "e", "n", "d", "i", "n", "g">>) \/ Contains(t, <<"s", "u", "b", "m", "i", "t", "t", "e", "d">>) THEN "pending"
        ELSE "unknown"

\* WorkflowEngine._execute_v2: whether the download phase is run.
V2WantsDownload(st) == st = "offer_ready" \/ st = "accepted"

\* WorkflowEngine._execute_v1: whether the download phase is run.
V1WantsDownload(st, text) ==
    st = "offer_ready" \/ Contains(text, <<"o", "f", "f", "e", "r">>) \/ Contains(text, <<"a", "c", "c", "e", "p", "t", "e", "d">>)

----------------------------------------------------------------------------
\* State.

VARIABLES
    pc,               \* where WorkflowEngine.execute stands
    state,            \* WorkflowEngine.state
    use_v2,           \* WorkflowEngine.use_v2
    browser,          \* WorkflowEngine.browser: "None", "created", "open", "closed"
    exc,              \* the exception execute's except clause is handling, or "none"
    status,           \* local status of _execute_v1 / _execute_v2
    status_text,      \* local status_text of _execute_v1
    offer_downloaded, \* local offer_downloaded
    offer_path,       \* local offer_path: "None" or "saved"
    result,           \* the ApplicationResult of the return statement reached
    phase,            \* the phase agent called last: "none", "login", "navigation", "download"
    wf,               \* the workflow that agent runs
    attempt,          \* its loop variable attempt
    idx,              \* its loop variable i, the step to run next
    apc,              \* where the agent stands: "idle", "loop", "steps", "except", "returned"
    download_result,  \* DownloadAgent's local download_result: "None" or the temp file
    ret,              \* what the agent returned
    executed,         \* history: the steps run in the current attempt, with their results
    abort_step,       \* history: the step whose failure raised in the current attempt, or 0
    started,          \* history: attempts the agent has started
    failed,           \* history: attempts that ended in the except clause
    invoked,          \* history: the phases invoked in this run, in order
    phase_ok,         \* history: per phase "none", "ok" or "fail"
    stored,           \* history: the calls of the artifact store made in this run
    slept,            \* history: the sleeps of the agent between its attempts, in seconds
    call,             \* unit runs: the function applied last, or "none"
    args,             \* unit runs: what it was applied to
    out,              \* unit runs: what it gave
    pages,            \* browser.context.pages: the urls of the open pages, oldest first
    active,           \* browser.page: its place in pages
    initial_page_count, \* _find_and_click's local initial_page_count
    cpc,              \* where _find_and_click stands: a strategy and a target
    clicks,           \* history: the clicks of the step that reached an element
    dpc,              \* where a click step of the download agent stands: "idle", "click", "done"
    pages_before,     \* DownloadAgent's local pages_before: the pages open when the step began
    current_page,     \* DownloadAgent's local current_page: the place of browser.page at that time
    download_event,   \* history: "armed" while the click runs inside expect_download, then
                      \* the listener that got the download event: "first", "retry", "none"
    fetched_pages,    \* history: the pages whose url the step fetched
    closed_pages,     \* history: the pages the step closed
    artifact          \* download_result of the step: "None", "native", "fetched"

engineVars == <<pc, state, use_v2, browser, exc, status, status_text,
                offer_downloaded, offer_path, result>>

agentVars == <<phase, wf, attempt, idx, apc, download_result, ret,
               executed, abort_step, started, failed, slept>>

\* The variables of the unit runs, in which one function of the program is
\* applied to inputs drawn from the sets above; a run of the engine leaves
\* them alone.
unitVars == <<call, args, out, pages, active, initial_page_count, cpc, clicks,
              dpc, pages_before, current_page, download_event, fetched_pages,
              closed_pages, artifact>>

\* What a click step of the download agent keeps.
captureVars == <<dpc, pages_before, current_page, download_event, fetched_pages,
              closed_pages, artifact>>

\* The page list and what a click step keeps.
clickVars == <<pages, active, initial_page_count, cpc, clicks>>

vars == <<pc, state, use_v2, browser, exc, status, status_text,
          offer_downloaded, offer_path, result, invoked, phase_ok, stored, slept,
          phase, wf, attempt, idx, apc, download_result, ret,
          executed, abort_step, started, failed, call, args, out,
          pages, active, initial_page_count, cpc, clicks,
          dpc, pages_before, current_page, download_event, fetched_pages,
              closed_pages, artifact>>

NoResult == [success |-> FALSE, status |-> "None", offer_downloaded |-> FALSE,
             offer_path |-> "None", message |-> "None"]

ApplicationResult(success, st, downloaded, path, message) ==
    [success |-> success, status |-> st, offer_downloaded |-> downloaded,
     offer_path |-> path, message |-> message]

\* What a phase agent hands back: login a bool, navigation a dict with
\* success and found_status, download a path or None.
AgentReturn(ok, found_status, path) ==
    [ok |-> ok, found_status |-> found_status, path |-> path]

NoReturn == AgentReturn(FALSE, "None", "None")

Phases == {"login", "navigation", "download"}

\* WorkflowEngine.__init__
Init ==
    /\ pc = "idle"
    /\ state = "init"
    /\ use_v2 = FALSE
    /\ browser = "None"
    /\ exc = "none"
    /\ status = "None"
    /\ status_text = << >>
    /\ offer_downloaded = FALSE
    /\ offer_path = "None"
    /\ result = NoResult
    /\ phase = "none"
    /\ wf = NoWorkflow
    /\ attempt = 0
    /\ idx = 0
    /\ apc = "idle"
    /\ download_result = "None"
    /\ ret = NoReturn
    /\ executed = << >>
    /\ abort_step = 0
    /\ started = 0
    /\ failed = 0
    /\ invoked = << >>
    /\ phase_ok = [p \in Phases |-> "none"]
    /\ stored = {}
    /\ slept = << >>
    /\ call = "none"
    /\ args = << >>
    /\ out = << >>
    /\ pages = << >>
    /\ active = 0
    /\ initial_page_count = 0
    /\ cpc = [strategy |-> 0, k |-> 0]
    /\ clicks = << >>
    /\ dpc = "idle"
    /\ pages_before = 0
    /\ current_page = 0
    /\ download_event = "none"
    /\ fetched_pages = {}
    /\ closed_pages = {}
    /\ artifact = "None"

----------------------------------------------------------------------------
\* WorkflowEngine.execute

\* A return statement inside the try block: the value is kept and the
\* finally clause runs.
ReturnPastFinally(r) ==
    /\ result' = r
    /\ pc' = "returned"

Return(r) ==
    /\ result' = r
    /\ pc' = "finally"

\* An exception inside the try block, on its way to the except clause.
Raise(e) ==
    /\ exc' = e
    /\ pc' = "except"

\* execute is called: state = INIT, then load_school_config, which sets
\* use_v2 from the keys of the file; it raises when the file is missing
\* (before use_v2 is set) or does not validate (after).
LoadSchoolConfig ==
    /\ pc = "idle"
    /\ state' = "init"
    /\ \/ /\ use_v2' \in BOOLEAN
          /\ pc' = "start_browser"
          /\ UNCHANGED exc
       \/ /\ use_v2' \in BOOLEAN
          /\ Raise("config")
    /\ UNCHANGED <<browser, status, status_text, offer_downloaded, offer_path,
                   result, invoked, phase_ok>>
    /\ UNCHANGED agentVars
    /\ UNCHANGED unitVars
    /\ UNCHANGED stored

\* self.browser = PlaywrightManager(...); await self.browser.start()
StartBrowser ==
    /\ pc = "start_browser"
    /\ \/ /\ browser' = "open"
          /\ pc' = IF use_v2 THEN "v2_login" ELSE "v1_login"
          /\ UNCHANGED exc
       \/ /\ browser' = "created"
          /\ Raise("browser")
    /\ UNCHANGED <<state, use_v2, status, status_text, offer_downloaded, offer_path,
                   result, invoked, phase_ok>>
    /\ UNCHANGED agentVars
    /\ UNCHANGED unitVars
    /\ UNCHANGED stored

\* The call of a phase agent: its retry loop starts with attempt 1.
Invoke(p, workflow) ==
    /\ phase' = p
    /\ wf' = workflow
    /\ attempt' = 1
    /\ idx' = 0
    /\ apc' = "loop"
    /\ download_result' = "None"
    /\ ret' = NoReturn
    /\ executed' = << >>
    /\ abort_step' = 0
    /\ started' = 0
    /\ failed' = 0
    /\ slept' = << >>
    /\ invoked' = Append(invoked, p)

\* The agent returns to the engine.
AgentReturns(r) ==
    /\ apc' = "returned"
    /\ ret' = r
    /\ phase_ok' = [phase_ok EXCEPT ![phase] = IF r.ok THEN "ok" ELSE "fail"]

\* The engine has read what the agent returned: the agent's locals are gone.
ClearAgent ==
    /\ phase' = "none"
    /\ wf' = NoWorkflow
    /\ attempt' = 0
    /\ idx' = 0
    /\ apc' = "idle"
    /\ download_result' = "None"
    /\ ret' = NoReturn
    /\ executed' = << >>
    /\ abort_step' = 0
    /\ started' = 0
    /\ failed' = 0
    /\ slept' = << >>

\* except Exception: state = FAILED and a failed result is returned.
Except ==
    /\ pc = "except"
    /\ state' = "failed"
    /\ Return(ApplicationResult(FALSE, "unknown", FALSE, "None", "workflow_failed"))
    /\ UNCHANGED <<use_v2, browser, exc, status, status_text, offer_downloaded,
                   offer_path, invoked, phase_ok>>
    /\ UNCHANGED agentVars
    /\ UNCHANGED unitVars
    /\ UNCHANGED stored

\* finally: if self.browser: await self.browser.close().  When close raises,
\* the exception replaces the pending return value and reaches the caller.
Finally ==
    /\ pc = "finally"
    /\ IF browser = "None"
       THEN /\ pc' = "returned"
            /\ UNCHANGED <<browser, result>>
       ELSE \/ /\ browser' = "closed"
               /\ pc' = "returned"
               /\ UNCHANGED result
            \/ /\ pc' = "raised"
               /\ result' = NoResult
               /\ UNCHANGED browser
    /\ UNCHANGED <<state, use_v2, exc, status, status_text, offer_downloaded,
                   offer_path, invoked, phase_ok>>
    /\ UNCHANGED agentVars
    /\ UNCHANGED unitVars
    /\ UNCHANGED stored

----------------------------------------------------------------------------
\* LoginAgent.execute_login

\* for i, step in enumerate(steps, 1): the step the loop of an agent takes
\* after step i.
StepAfterSkips(i) == i + 2

StepAfter(i) == i + 1

\* What the step loop does with the result of a step: go on with the next
\* step ("next") or raise out of the attempt ("raise").
LoginStepVerdictStrict(step, r) ==
    IF ~r.success THEN "raise" ELSE "next"

LoginStepVerdict(step, r) ==
    IF ~r.success
    THEN IF step.optional THEN "next" ELSE "raise"
    ELSE "next"

\* The except clause of an attempt: TRUE when the agent sleeps and
\* tries again, FALSE when it returns failure.
\* await asyncio.sleep(config.<phase>.retry_delay) before attempt a + 1
RetrySleepGrowing(workflow, a) == workflow.retry_delay * (a + 1)

RetrySleep(workflow, a) == workflow.retry_delay

LoginRetriesEarly(a, retries) == a + 1 < retries

LoginRetries(a, retries) == a < retries

\* for attempt in range(1, retries + 1): the attempt starts by opening the
\* portal and runs the workflow from its first step; with no attempt left
\* the agent returns False.
LoginLoop ==
    /\ phase = "login" /\ apc = "loop"
    /\ IF attempt <= wf.max_retries
       THEN /\ apc' = "steps"
            /\ idx' = 1
            /\ executed' = << >>
            /\ abort_step' = 0
            /\ started' = started + 1
            /\ UNCHANGED <<ret, phase_ok>>
       ELSE /\ AgentReturns(AgentReturn(FALSE, "None", "None"))
            /\ UNCHANGED <<idx, executed, abort_step, started>>
    /\ UNCHANGED <<phase, wf, attempt, download_result, failed, invoked>>
    /\ UNCHANGED engineVars
    /\ UNCHANGED unitVars
    /\ UNCHANGED slept
    /\ UNCHANGED stored

\* One step of the login workflow: execute_action, then the check of its result.
LoginStep ==
    /\ phase = "login" /\ apc = "steps" /\ idx <= Len(wf.steps)
    /\ \E raw \in HandlerOutcomes(wf.steps[idx]) :
         LET step == wf.steps[idx]
             r == ExecuteAction(step, raw)
         IN  /\ executed' = Append(executed, [i |-> idx, raw |-> raw, success |-> r.success])
             /\ IF LoginStepVerdict(step, r) = "raise"
                THEN /\ apc' = "except"
                     /\ abort_step' = idx
                     /\ UNCHANGED idx
                ELSE /\ idx' = StepAfter(idx)
                     /\ UNCHANGED <<apc, abort_step>>
    /\ UNCHANGED <<phase, wf, attempt, download_result, ret, started, failed,
                   invoked, phase_ok>>
    /\ UNCHANGED engineVars
    /\ UNCHANGED unitVars
    /\ UNCHANGED slept
    /\ UNCHANGED stored

\* After the last step: the page text decides whether the login took.
LoginVerify ==
    /\ phase = "login" /\ apc = "steps" /\ idx > Len(wf.steps)
    /\ \E page_text \in PageTexts :
         IF StillOnLoginPage(page_text)
         THEN /\ apc' = "except"
              /\ UNCHANGED <<ret, phase_ok>>
         ELSE AgentReturns(AgentReturn(TRUE, "None", "None"))
    /\ UNCHANGED <<phase, wf, attempt, idx, download_result, executed, abort_step,
                   started, failed, invoked>>
    /\ UNCHANGED engineVars
    /\ UNCHANGED unitVars
    /\ UNCHANGED slept
    /\ UNCHANGED stored

\* except Exception: sleep retry_delay and try again, or give up.
LoginExcept ==
    /\ phase = "login" /\ apc = "except"
    /\ failed' = failed + 1
    /\ IF LoginRetries(attempt, wf.max_retries)
       THEN /\ slept' = Append(slept, RetrySleep(wf, attempt))
            /\ attempt' = attempt + 1
            /\ apc' = "loop"
            /\ UNCHANGED <<ret, phase_ok>>
       ELSE /\ AgentReturns(AgentReturn(FALSE, "None", "None"))
            /\ UNCHANGED <<attempt, slept>>
    /\ UNCHANGED <<phase, wf, idx, download_result, executed, abort_step, started,
                   invoked>>
    /\ UNCHANGED engineVars
    /\ UNCHANGED unitVars
    /\ UNCHANGED stored

----------------------------------------------------------------------------
\* NavigationAgent.navigate_to_application

NavigationStepVerdict(step, r) ==
    IF ~r.success
    THEN IF step.optional THEN "next" ELSE "raise"
    ELSE "next"

NavigationRetries(a, retries) == a < retries

NavigationLoop ==
    /\ phase = "navigation" /\ apc = "loop"
    /\ IF attempt <= wf.max_retries
       THEN /\ apc' = "steps"
            /\ idx' = 1
            /\ executed' = << >>
            /\ abort_step' = 0
            /\ started' = started + 1
            /\ UNCHANGED <<ret, phase_ok>>
       ELSE /\ AgentReturns(AgentReturn(FALSE, "None", "None"))
            /\ UNCHANGED <<idx, executed, abort_step, started>>
    /\ UNCHANGED <<phase, wf, attempt, download_result, failed, invoked>>
    /\ UNCHANGED engineVars
    /\ UNCHANGED unitVars
    /\ UNCHANGED slept
    /\ UNCHANGED stored

NavigationStep ==
    /\ phase = "navigation" /\ apc = "steps" /\ idx <= Len(wf.steps)
    /\ \E raw \in HandlerOutcomes(wf.steps[idx]) :
         LET step == wf.steps[idx]
             r == ExecuteAction(step, raw)
         IN  /\ executed' = Append(executed, [i |-> idx, raw |-> raw, success |-> r.success])
             /\ IF NavigationStepVerdict(step, r) = "raise"
                THEN /\ apc' = "except"
                     /\ abort_step' = idx
                     /\ UNCHANGED idx
                ELSE /\ idx' = StepAfter(idx)
                     /\ UNCHANGED <<apc, abort_step>>
    /\ UNCHANGED <<phase, wf, attempt, download_result, ret, started, failed,
                   invoked, phase_ok>>
    /\ UNCHANGED engineVars
    /\ UNCHANGED unitVars
    /\ UNCHANGED slept
    /\ UNCHANGED stored

\* What navigate_to_application returns once the steps of an attempt are
\* done: extract_status reads the page and asks the vision service, and
\* catches what they raise.
NavigationResult(table, page_text, reply) ==
    AgentReturn(TRUE, ExtractStatus(table, page_text, ExtractInformation(reply)), "None")

\* After the last step: the status is extracted and the attempt succeeds.
NavigationExtract ==
    /\ phase = "navigation" /\ apc = "steps" /\ idx > Len(wf.steps)
    /\ \E table \in StatusTables, page_text \in PageTexts, reply \in VisionReplies :
         AgentReturns(NavigationResult(table, page_text, reply))
    /\ UNCHANGED <<phase, wf, attempt, idx, download_result, executed, abort_step,
                   started, failed, invoked>>
    /\ UNCHANGED engineVars
    /\ UNCHANGED unitVars
    /\ UNCHANGED slept
    /\ UNCHANGED stored

NavigationExcept ==
    /\ phase = "navigation" /\ apc = "except"
    /\ failed' = failed + 1
    /\ IF NavigationRetries(attempt, wf.max_retries)
       THEN /\ slept' = Append(slept, RetrySleep(wf, attempt))
            /\ attempt' = attempt + 1
            /\ apc' = "loop"
            /\ UNCHANGED <<ret, phase_ok>>
       ELSE /\ AgentReturns(AgentReturn(FALSE, "None", "None"))
            /\ UNCHANGED <<attempt, slept>>
    /\ UNCHANGED <<phase, wf, idx, download_result, executed, abort_step, started,
                   invoked>>
    /\ UNCHANGED engineVars
    /\ UNCHANGED unitVars
    /\ UNCHANGED stored

----------------------------------------------------------------------------
\* DownloadAgent.download_offer

\* Which branch of the step loop a step takes.
DownloadBranch(step) ==
    IF step.action = "capture_download" THEN "capture"
    ELSE IF step.action = "find_and_click" /\ step.triggers_download THEN "trigger"
    ELSE IF step.action = "find_and_click" /\ step.opens_new_tab THEN "popup"
    ELSE "regular"

\* download_result after a capture_download step.
AfterCapture(current, r) ==
    IF r.success /\ r.has_data THEN r.data ELSE current

\* download_result after a click with triggers_download.  native: the
\* download event is caught by the first listener ("first"), by the second
\* ("retry") or by neither ("none"); surface: no new page ("none"), a new
\* page whose url has a pdf marker ("pdf") or another new page ("other");
\* fetched: whether the fetch inside the new page succeeded.
AfterTrigger(current, native, surface, fetched) ==
    IF native \in {"first", "retry"} THEN "native"
    ELSE IF surface = "pdf" /\ fetched THEN "fetched"
    ELSE current

\* download_result after a click with opens_new_tab (and no triggers_download).
AfterPopup(current, surface, fetched) ==
    IF surface = "pdf" /\ fetched THEN "fetched" ELSE current

\* The check of the result in the branch of a regular step.
DownloadStepVerdict(step, r) ==
    IF ~r.success
    THEN IF step.optional THEN "next" ELSE "raise"
    ELSE "next"

DownloadRetriesNever(a, retries) == FALSE

DownloadRetries(a, retries) == a < retries

DownloadLoop ==
    /\ phase = "download" /\ apc = "loop"
    /\ IF attempt <= wf.max_retries
       THEN /\ apc' = "steps"
            /\ idx' = 1
            /\ download_result' = "None"
            /\ executed' = << >>
            /\ abort_step' = 0
            /\ started' = started + 1
            /\ UNCHANGED <<ret, phase_ok>>
       ELSE /\ AgentReturns(AgentReturn(FALSE, "None", "None"))
            /\ UNCHANGED <<idx, download_result, executed, abort_step, started>>
    /\ UNCHANGED <<phase, wf, attempt, failed, invoked>>
    /\ UNCHANGED engineVars
    /\ UNCHANGED unitVars
    /\ UNCHANGED slept
    /\ UNCHANGED stored

\* A capture_download step: the result is read for its file only.
DownloadCaptureStep ==
    /\ phase = "download" /\ apc = "steps" /\ idx <= Len(wf.steps)
    /\ DownloadBranch(wf.steps[idx]) = "capture"
    /\ \E raw \in HandlerOutcomes(wf.steps[idx]) :
         LET r == ExecuteAction(wf.steps[idx], raw)
         IN  /\ executed' = Append(executed, [i |-> idx, raw |-> raw, success |-> r.success])
             /\ download_result' = AfterCapture(download_result, r)
    /\ idx' = StepAfter(idx)
    /\ UNCHANGED <<phase, wf, attempt, apc, ret, abort_step, started, failed,
                   invoked, phase_ok>>
    /\ UNCHANGED engineVars
    /\ UNCHANGED unitVars
    /\ UNCHANGED slept
    /\ UNCHANGED stored

\* A click with triggers_download: the click runs inside the download
\* listener and its result is not read; a second listener and then the new
\* page are tried when no download arrives.
DownloadTriggerStep ==
    /\ phase = "download" /\ apc = "steps" /\ idx <= Len(wf.steps)
    /\ DownloadBranch(wf.steps[idx]) = "trigger"
    /\ \E raw \in HandlerOutcomes(wf.steps[idx]),
          native \in {"first", "retry", "none"},
          surface \in {"none", "pdf", "other"},
          fetched \in BOOLEAN :
         LET r == ExecuteAction(wf.steps[idx], raw)
         IN  /\ executed' = Append(executed, [i |-> idx, raw |-> raw, success |-> r.success])
             /\ download_result' = AfterTrigger(download_result, native, surface, fetched)
    /\ idx' = StepAfter(idx)
    /\ UNCHANGED <<phase, wf, attempt, apc, ret, abort_step, started, failed,
                   invoked, phase_ok>>
    /\ UNCHANGED engineVars
    /\ UNCHANGED unitVars
    /\ UNCHANGED slept
    /\ UNCHANGED stored

\* A click with opens_new_tab: the result is not read; the last open page
\* is fetched when its url has a pdf marker.
DownloadPopupStep ==
    /\ phase = "download" /\ apc = "steps" /\ idx <= Len(wf.steps)
    /\ DownloadBranch(wf.steps[idx]) = "popup"
    /\ \E raw \in HandlerOutcomes(wf.steps[idx]),
          surface \in {"none", "pdf", "other"},
          fetched \in BOOLEAN :
         LET r == ExecuteAction(wf.steps[idx], raw)
         IN  /\ executed' = Append(executed, [i |-> idx, raw |-> raw, success |-> r.success])
             /\ download_result' = AfterPopup(download_result, surface, fetched)
    /\ idx' = StepAfter(idx)
    /\ UNCHANGED <<phase, wf, attempt, apc, ret, abort_step, started, failed,
                   invoked, phase_ok>>
    /\ UNCHANGED engineVars
    /\ UNCHANGED unitVars
    /\ UNCHANGED slept
    /\ UNCHANGED stored

\* Any other step.
DownloadRegularStep ==
    /\ phase = "download" /\ apc = "steps" /\ idx <= Len(wf.steps)
    /\ DownloadBranch(wf.steps[idx]) = "regular"
    /\ \E raw \in HandlerOutcomes(wf.steps[idx]) :
         LET step == wf.steps[idx]
             r == ExecuteAction(step, raw)
         IN  /\ executed' = Append(executed, [i |-> idx, raw |-> raw, success |-> r.success])
             /\ IF DownloadStepVerdict(step, r) = "raise"
                THEN /\ apc' = "except"
                     /\ abort_step' = idx
                     /\ UNCHANGED idx
                ELSE /\ idx' = StepAfter(idx)
                     /\ UNCHANGED <<apc, abort_step>>
    /\ UNCHANGED <<phase, wf, attempt, download_result, ret, started, failed,
                   invoked, phase_ok>>
    /\ UNCHANGED engineVars
    /\ UNCHANGED unitVars
    /\ UNCHANGED slept
    /\ UNCHANGED stored

\* After the last step: a captured file is handed to storage.save_offer and
\* its path returned; with no file, or when saving raises, the attempt fails.
DownloadSave ==
    /\ phase = "download" /\ apc = "steps" /\ idx > Len(wf.steps)
    /\ IF download_result # "None"
       THEN /\ stored' = stored \cup {"save_offer"}
            /\ \/ AgentReturns(AgentReturn(TRUE, "None", "saved"))
               \/ /\ apc' = "except"
                  /\ UNCHANGED <<ret, phase_ok>>
       ELSE /\ apc' = "except"
            /\ UNCHANGED <<ret, phase_ok, stored>>
    /\ UNCHANGED <<phase, wf, attempt, idx, download_result, executed, abort_step,
                   started, failed, invoked>>
    /\ UNCHANGED engineVars
    /\ UNCHANGED unitVars
    /\ UNCHANGED slept

DownloadExcept ==
    /\ phase = "download" /\ apc = "except"
    /\ failed' = failed + 1
    /\ IF DownloadRetries(attempt, wf.max_retries)
       THEN /\ slept' = Append(slept, RetrySleep(wf, attempt))
            /\ attempt' = attempt + 1
            /\ apc' = "loop"
            /\ UNCHANGED <<ret, phase_ok>>
       ELSE /\ AgentReturns(AgentReturn(FALSE, "None", "None"))
            /\ UNCHANGED <<attempt, slept>>
    /\ UNCHANGED <<phase, wf, idx, download_result, executed, abort_step, started,
                   invoked>>
    /\ UNCHANGED engineVars
    /\ UNCHANGED unitVars
    /\ UNCHANGED stored

----------------------------------------------------------------------------
\* WorkflowEngine._execute_v2

\* if not login_success
LoginFailedNever(r) == FALSE

LoginFailed(r) == ~r.ok

\* if not nav_result.get("success")
NavigationFailedNever(r) == FALSE

NavigationFailed(r) == ~r.ok

\* if download_path
OfferDownloadedAlways(r) == TRUE

OfferDownloaded(r) == r.path # "None"

\* The state the engine takes when it starts looking for the application.
NavigationStateNavigate == "navigate"

NavigationState == "find_application"

\* The agents are built (VisionAgent configures the vision client, which
\* can raise), state = LOGIN and the login agent is called.
V2Login ==
    /\ pc = "v2_login"
    /\ \/ /\ state' = "login"
          /\ \E w \in Workflows(LoginStepShapes) : Invoke("login", w)
          /\ pc' = "v2_after_login"
          /\ UNCHANGED <<exc, phase_ok>>
       \/ /\ Raise("agents")
          /\ UNCHANGED <<state, invoked, phase_ok>>
          /\ UNCHANGED agentVars
    /\ UNCHANGED <<use_v2, browser, status, status_text, offer_downloaded,
                   offer_path, result>>
    /\ UNCHANGED unitVars
    /\ UNCHANGED stored

\* The login agent has returned: a failed result, or state = FIND_APPLICATION.
V2AfterLogin ==
    /\ pc = "v2_after_login" /\ phase = "login" /\ apc = "returned"
    /\ IF LoginFailed(ret)
       THEN /\ Return(ApplicationResult(FALSE, "unknown", FALSE, "None", "login_failed"))
            /\ UNCHANGED state
       ELSE /\ state' = NavigationState
            /\ pc' = "v2_navigate"
            /\ UNCHANGED result
    /\ ClearAgent
    /\ UNCHANGED <<use_v2, browser, exc, status, status_text, offer_downloaded,
                   offer_path, invoked, phase_ok>>
    /\ UNCHANGED unitVars
    /\ UNCHANGED stored

\* The navigation agent is called.
V2Navigate ==
    /\ pc = "v2_navigate"
    /\ \E w \in Workflows(NavigationStepShapes) : Invoke("navigation", w)
    /\ pc' = "v2_after_navigation"
    /\ UNCHANGED <<state, use_v2, browser, exc, status, status_text, offer_downloaded,
                   offer_path, result, phase_ok>>
    /\ UNCHANGED unitVars
    /\ UNCHANGED stored

\* The navigation agent has returned: a failed result, or state =
\* CHECK_STATUS and the status it found is taken.
V2AfterNavigation ==
    /\ pc = "v2_after_navigation" /\ phase = "navigation" /\ apc = "returned"
    /\ IF NavigationFailed(ret)
       THEN /\ Return(ApplicationResult(FALSE, "unknown", FALSE, "None", "navigation_failed"))
            /\ UNCHANGED <<state, status>>
       ELSE /\ state' = "check_status"
            /\ status' = ret.found_status
            /\ pc' = "v2_check_status"
            /\ UNCHANGED result
    /\ ClearAgent
    /\ UNCHANGED <<use_v2, browser, exc, status_text, offer_downloaded, offer_path,
                   invoked, phase_ok>>
    /\ UNCHANGED unitVars
    /\ UNCHANGED stored

\* With status OFFER_READY or ACCEPTED: state = DOWNLOAD and the download
\* agent is called.
V2CheckStatus ==
    /\ pc = "v2_check_status"
    /\ IF V2WantsDownload(status)
       THEN /\ state' = "download"
            /\ \E w \in Workflows(DownloadStepShapes) : Invoke("download", w)
            /\ pc' = "v2_after_download"
       ELSE /\ pc' = "v2_complete"
            /\ UNCHANGED <<state, invoked>>
            /\ UNCHANGED agentVars
    /\ UNCHANGED <<use_v2, browser, exc, status, status_text, offer_downloaded,
                   offer_path, result, phase_ok>>
    /\ UNCHANGED unitVars
    /\ UNCHANGED stored

\* The download agent has returned: a path sets offer_downloaded and offer_path.
V2AfterDownload ==
    /\ pc = "v2_after_download" /\ phase = "download" /\ apc = "returned"
    /\ IF OfferDownloaded(ret)
       THEN /\ offer_downloaded' = TRUE
            /\ offer_path' = ret.path
       ELSE UNCHANGED <<offer_downloaded, offer_path>>
    /\ pc' = "v2_complete"
    /\ ClearAgent
    /\ UNCHANGED <<state, use_v2, browser, exc, status, status_text, result,
                   invoked, phase_ok>>
    /\ UNCHANGED unitVars
    /\ UNCHANGED stored

\* state = COMPLETE
V2Complete ==
    /\ pc = "v2_complete"
    /\ state' = "complete"
    /\ pc' = "v2_save_metadata"
    /\ UNCHANGED <<use_v2, browser, exc, status, status_text, offer_downloaded,
                   offer_path, result, invoked, phase_ok>>
    /\ UNCHANGED agentVars
    /\ UNCHANGED unitVars
    /\ UNCHANGED stored

\* if request.application_id: storage.save_metadata(...), which can raise;
\* then the successful result is returned.  The first disjunct is a request
\* without application id.
V2SaveMetadata ==
    /\ pc = "v2_save_metadata"
    /\ \/ /\ Return(ApplicationResult(TRUE, status, offer_downloaded, offer_path, "checked"))
          /\ UNCHANGED <<exc, stored>>
       \/ /\ stored' = stored \cup {"save_metadata"}
          /\ \/ /\ Return(ApplicationResult(TRUE, status, offer_downloaded, offer_path, "checked"))
                /\ UNCHANGED exc
             \/ /\ Raise("metadata")
                /\ UNCHANGED result
    /\ UNCHANGED <<state, use_v2, browser, status, status_text, offer_downloaded,
                   offer_path, invoked, phase_ok>>
    /\ UNCHANGED agentVars
    /\ UNCHANGED unitVars

----------------------------------------------------------------------------
\* WorkflowEngine._execute_v1.  SimpleBrowserAgent's login, find_application
\* and download_offer catch what they raise; each is one call whose answer
\* is drawn here.

\* if not login_success
V1LoginFailed(r) == ~r.ok

\* if not find_result.get("success")
V1FindFailed(r) == ~r.ok

\* The outcome of a V1 agent call is written where the V2 agents write theirs.
V1Call(p, r) ==
    /\ ret' = r
    /\ invoked' = Append(invoked, p)
    /\ phase_ok' = [phase_ok EXCEPT ![p] = IF r.ok THEN "ok" ELSE "fail"]

V1Login ==
    /\ pc = "v1_login"
    /\ \/ /\ state' = "login"
          /\ \E ok \in BOOLEAN : V1Call("login", AgentReturn(ok, "None", "None"))
          /\ pc' = "v1_after_login"
          /\ UNCHANGED exc
       \/ /\ Raise("agents")
          /\ UNCHANGED <<state, ret, invoked, phase_ok>>
    /\ UNCHANGED <<use_v2, browser, status, status_text, offer_downloaded,
                   offer_path, result>>
    /\ UNCHANGED <<phase, wf, attempt, idx, apc, download_result, executed,
                   abort_step, started, failed>>
    /\ UNCHANGED unitVars
    /\ UNCHANGED slept
    /\ UNCHANGED stored

V1AfterLogin ==
    /\ pc = "v1_after_login"
    /\ IF V1LoginFailed(ret)
       THEN /\ Return(ApplicationResult(FALSE, "unknown", FALSE, "None", "login_failed"))
            /\ UNCHANGED <<state, status_text, ret, invoked, phase_ok>>
       ELSE /\ state' = "find_application"
            /\ \/ /\ V1Call("navigation", AgentReturn(FALSE, "None", "None"))
                  /\ UNCHANGED status_text
               \/ /\ V1Call("navigation", AgentReturn(TRUE, "None", "None"))
                  /\ status_text' \in VisionTexts
            /\ pc' = "v1_after_find"
            /\ UNCHANGED result
    /\ UNCHANGED <<use_v2, browser, exc, status, offer_downloaded, offer_path>>
    /\ UNCHANGED <<phase, wf, attempt, idx, apc, download_result, executed,
                   abort_step, started, failed>>
    /\ UNCHANGED unitVars
    /\ UNCHANGED slept
    /\ UNCHANGED stored

\* status_text = find_result.get("status_text", "").lower(); status = _parse_status(status_text)
V1AfterFind ==
    /\ pc = "v1_after_find"
    /\ IF V1FindFailed(ret)
       THEN /\ Return(ApplicationResult(FALSE, "unknown", FALSE, "None", "not_found"))
            /\ UNCHANGED <<state, status, status_text>>
       ELSE /\ state' = "check_status"
            /\ status_text' = Lower(status_text)
            /\ status' = ParseStatus(Lower(status_text))
            /\ pc' = "v1_check_status"
            /\ UNCHANGED result
    /\ UNCHANGED <<use_v2, browser, exc, offer_downloaded, offer_path, invoked, phase_ok>>
    /\ UNCHANGED agentVars
    /\ UNCHANGED unitVars
    /\ UNCHANGED stored

\* download_offer answers None or a Path (a dict is handled too but is
\* never what SimpleBrowserAgent.download_offer returns).
V1CheckStatus ==
    /\ pc = "v1_check_status"
    /\ IF V1WantsDownload(status, status_text)
       THEN /\ state' = "download"
            /\ \/ /\ V1Call("download", AgentReturn(FALSE, "None", "None"))
                  /\ UNCHANGED <<offer_downloaded, offer_path>>
               \/ /\ V1Call("download", AgentReturn(TRUE, "None", "saved"))
                  /\ offer_downloaded' = TRUE
                  /\ offer_path' = "saved"
       ELSE UNCHANGED <<state, ret, invoked, phase_ok, offer_downloaded, offer_path>>
    /\ pc' = "v1_complete"
    /\ UNCHANGED <<use_v2, browser, exc, status, status_text, result>>
    /\ UNCHANGED <<phase, wf, attempt, idx, apc, download_result, executed,
                   abort_step, started, failed>>
    /\ UNCHANGED unitVars
    /\ UNCHANGED slept
    /\ UNCHANGED stored

V1Complete ==
    /\ pc = "v1_complete"
    /\ state' = "complete"
    /\ pc' = "v1_save_metadata"
    /\ UNCHANGED <<use_v2, browser, exc, status, status_text, offer_downloaded,
                   offer_path, result, invoked, phase_ok>>
    /\ UNCHANGED agentVars
    /\ UNCHANGED unitVars
    /\ UNCHANGED stored

V1SaveMetadata ==
    /\ pc = "v1_save_metadata"
    /\ \/ /\ Return(ApplicationResult(TRUE, status, offer_downloaded, offer_path, "checked"))
          /\ UNCHANGED <<exc, stored>>
       \/ /\ stored' = stored \cup {"save_metadata"}
          /\ \/ /\ Return(ApplicationResult(TRUE, status, offer_downloaded, offer_path, "checked"))
                /\ UNCHANGED exc
             \/ /\ Raise("metadata")
                /\ UNCHANGED result
    /\ UNCHANGED <<state, use_v2, browser, status, status_text, offer_downloaded,
                   offer_path, invoked, phase_ok>>
    /\ UNCHANGED agentVars
    /\ UNCHANGED unitVars

----------------------------------------------------------------------------
Next ==
    \/ LoadSchoolConfig \/ StartBrowser \/ Except \/ Finally
    \/ V2Login \/ V2AfterLogin \/ V2Navigate \/ V2AfterNavigation \/ V2CheckStatus
    \/ V2AfterDownload \/ V2Complete \/ V2SaveMetadata
    \/ LoginLoop \/ LoginStep \/ LoginVerify \/ LoginExcept
    \/ NavigationLoop \/ NavigationStep \/ NavigationExtract \/ NavigationExcept
    \/ DownloadLoop \/ DownloadCaptureStep \/ DownloadTriggerStep
    \/ DownloadPopupStep \/ DownloadRegularStep \/ DownloadSave \/ DownloadExcept
    \/ V1Login \/ V1AfterLogin \/ V1AfterFind \/ V1CheckStatus
    \/ V1Complete \/ V1SaveMetadata

Spec == Init /\ [][Next]_vars

----------------------------------------------------------------------------
\* A phase agent called on its own, with workflows that differ in
\* retry_delay and allow one attempt more than those of a whole run.

MaxRetrySteps == 1

RetryDelays == {1, 3}

RetryWorkflows(S) ==
    {WorkflowConfig(steps, r, d) :
        steps \in SeqsUpTo(S, MaxRetrySteps), r \in 0..(MaxRetries + 1), d \in RetryDelays}

AgentCalled ==
    /\ phase = "none"
    /\ \/ \E w \in RetryWorkflows(LoginStepShapes) : Invoke("login", w)
       \/ \E w \in RetryWorkflows(NavigationStepShapes) : Invoke("navigation", w)
       \/ \E w \in RetryWorkflows(DownloadStepShapes) : Invoke("download", w)
    /\ UNCHANGED engineVars
    /\ UNCHANGED <<phase_ok, stored>>
    /\ UNCHANGED unitVars

NextRetry ==
    \/ AgentCalled
    \/ LoginLoop \/ LoginStep \/ LoginVerify \/ LoginExcept
    \/ NavigationLoop \/ NavigationStep \/ NavigationExtract \/ NavigationExcept
    \/ DownloadLoop \/ DownloadCaptureStep \/ DownloadTriggerStep
    \/ DownloadPopupStep \/ DownloadRegularStep \/ DownloadSave \/ DownloadExcept

SpecRetry == Init /\ [][NextRetry]_vars

----------------------------------------------------------------------------
\* Unit runs: one function of the program applied to drawn inputs.

\* The variables of a run of the engine.
runVars == <<engineVars, agentVars, invoked, phase_ok, stored>>

\* PlaywrightManager.get_page_text: the inner text of the body, or the empty
\* text when reading it raised.
GetPageText(raised, text) == IF raised THEN << >> ELSE text

\* LoginAgent.execute_login, the verification of an attempt whose steps all
\* succeeded: the page text is read and the attempt either raises
\* ("failed") or returns True ("logged_in").
VerifyLogin ==
    /\ call = "none"
    /\ \E raised \in BOOLEAN, text \in PageTexts :
         LET page_text == GetPageText(raised, text)
         IN  /\ call' = "verify_login"
             /\ args' = [page_text |-> page_text, read_failed |-> raised]
             /\ out' = IF StillOnLoginPage(page_text) THEN "failed" ELSE "logged_in"
    /\ UNCHANGED runVars
    /\ UNCHANGED clickVars
    /\ UNCHANGED captureVars

\* NavigationAgent.navigate_to_application, the end of an attempt whose
\* steps all succeeded.
ExtractStatusAfterSteps ==
    /\ call = "none"
    /\ \E table \in StatusTables, page_text \in PageTexts, reply \in VisionReplies :
         /\ call' = "extract_status"
         /\ args' = [table |-> table, page_text |-> page_text, reply |-> reply]
         /\ out' = LET r == NavigationResult(table, page_text, reply)
                   IN  [ok |-> r.ok, found_status |-> r.found_status, path |-> r.path,
                        vision_called |-> VisionCalled(PatternStatus(table, page_text))]
    /\ UNCHANGED runVars
    /\ UNCHANGED clickVars
    /\ UNCHANGED captureVars

\* ActionExecutor.execute_action on one step.
ExecuteStep ==
    /\ call = "none"
    /\ \E step \in LoginStepShapes \cup NavigationStepShapes \cup DownloadStepShapes :
         \E raw \in HandlerOutcomes(step) :
            /\ call' = "execute_action"
            /\ args' = [step |-> step, raw |-> raw]
            /\ out' = ExecuteAction(step, raw)
    /\ UNCHANGED runVars
    /\ UNCHANGED clickVars
    /\ UNCHANGED captureVars

\* WorkflowEngine.execute as a function of what the engine object holds when
\* it is called (state, use_v2, browser) and of what the environment answers
\* during the run: the config file, the browser start, the agents' returns
\* (V2: found_status; V1: status_text), the capture path the download takes
\* and whether closing the browser raises.  The vision agent, the phase
\* agents and their executors are built inside the run and are no input.
RunEnvs ==
    [config : {"missing", "v2", "v2_invalid", "v1", "v1_invalid"},
     start_ok : BOOLEAN, login_ok : BOOLEAN, found : BOOLEAN,
     found_status : {"pending", "offer_ready", "accepted"},
     status_text : {<<"S", "u", "b", "m", "i", "t", "t", "e", "d">>,
                    <<"O", "f", "f", "e", "r", " ", "r", "e", "j", "e", "c", "t", "e", "d">>},
     capture : {"none", "native", "fetched"},
     close_ok : BOOLEAN]

\* WorkflowEngine.__init__
FreshEngine == [state |-> "init", use_v2 |-> FALSE, browser |-> "None"]

\* self.browser = PlaywrightManager(...); await self.browser.start(): the
\* browser of a run is a new one, whatever the engine held.
BrowserForRunKept(engine, env) ==
    IF engine.browser # "None" THEN engine.browser
    ELSE IF env.start_ok THEN "open" ELSE "created"

BrowserForRun(engine, env) == IF env.start_ok THEN "open" ELSE "created"

Execute(engine, env) ==
    LET loaded == env.config \in {"v1", "v2"}
        v2 == IF env.config = "missing" THEN engine.use_v2
              ELSE env.config \in {"v2", "v2_invalid"}
        b == IF loaded THEN BrowserForRun(engine, env) ELSE engine.browser
        \* a browser that is not open answers no call: the agents fail
        login == AgentReturn(env.login_ok /\ b = "open", "None", "None")
        nav == AgentReturn(env.found /\ b = "open", env.found_status, "None")
        text == Lower(env.status_text)
        st == IF v2 THEN nav.found_status ELSE ParseStatus(text)
        wants == IF v2 THEN V2WantsDownload(st) ELSE V1WantsDownload(st, text)
        body ==
            IF ~loaded \/ b # "open"
            THEN [state |-> "failed", status |-> "unknown", capture |-> "not_run"]
            ELSE IF LoginFailed(login)
            THEN [state |-> "login", status |-> "unknown", capture |-> "not_run"]
            ELSE IF NavigationFailed(nav)
            THEN [state |-> "find_application", status |-> "unknown", capture |-> "not_run"]
            ELSE [state |-> "complete", status |-> st,
                  capture |-> IF wants THEN env.capture ELSE "not_run"]
        raised == b # "None" /\ ~env.close_ok
    IN  [status |-> IF raised THEN "None" ELSE body.status,
         capture |-> body.capture,
         raised |-> raised,
         engine |-> [state |-> body.state, use_v2 |-> v2,
                     browser |-> IF b = "None" \/ raised THEN b ELSE "closed"]]

\* execute on an engine that has just been built.
ExecuteFirst ==
    /\ call = "none"
    /\ \E env \in RunEnvs :
         /\ call' = "execute"
         /\ args' = [engine |-> FreshEngine, env |-> env]
         /\ out' = <<Execute(FreshEngine, env)>>
    /\ UNCHANGED runVars
    /\ UNCHANGED clickVars
    /\ UNCHANGED captureVars

\* execute once more with what the environment answered the first time, on
\* the engine of the first run or on a new one.
ExecuteSecond ==
    /\ call = "execute" /\ Len(out) = 1
    /\ \E engine \in {FreshEngine, out[1].engine} :
         /\ args' = [engine |-> engine, env |-> args.env]
         /\ out' = Append(out, Execute(engine, args.env))
    /\ UNCHANGED call
    /\ UNCHANGED runVars
    /\ UNCHANGED clickVars
    /\ UNCHANGED captureVars

\* PlaywrightManager.type_text(selector, text, clear, delay) as
\* _find_and_fill calls it for a hint: with the keywords text, value and
\* timeout.  The parameter list has no value and no timeout and selector is
\* not given, so the call raises before the body runs, whatever the page
\* shows for the hint.
TypeText(hint) == "raise"

\* ActionExecutor._find_and_fill: page.fill on each selector, then type_text
\* on each hint; an exception goes on with the next one.
FindAndFill(selectors, hints) ==
    \/ \E k \in 1..Len(selectors) : selectors[k]
    \/ \E k \in 1..Len(hints) : TypeText(hints[k]) = "ok"

FillStep ==
    /\ call = "none"
    /\ \E selectors \in SeqsUpTo(BOOLEAN, MaxSelectors), hints \in SeqsUpTo(HintKinds, MaxHints) :
         /\ call' = "find_and_fill"
         /\ args' = [selectors |-> selectors, hints |-> hints]
         /\ out' = FindAndFill(selectors, hints)
    /\ UNCHANGED runVars
    /\ UNCHANGED clickVars
    /\ UNCHANGED captureVars

\* The most success indicators a step has.
MaxIndicators == 2

IndicatorTexts ==
    {<<"w", "e", "l", "c", "o", "m", "e">>,
     <<"P", "O", "R", "T", "A", "L">>,
     <<"L", "o", "g", "o", "u", "t">>}

\* ActionExecutor._wait_for_navigation.  quiet: wait_for_load_state ends
\* before the timeout; it raises otherwise.  get_page_text gives "" when it
\* cannot read the page.
WaitForNavigationSameCase(quiet, success_indicators, page_text) ==
    /\ quiet
    /\ \/ success_indicators = << >>
       \/ \E k \in 1..Len(success_indicators) : Contains(page_text, success_indicators[k])

WaitForNavigation(quiet, success_indicators, page_text) ==
    /\ quiet
    /\ \/ success_indicators = << >>
       \/ \E k \in 1..Len(success_indicators) :
             Contains(Lower(page_text), Lower(success_indicators[k]))

WaitForNavigationStep ==
    /\ call = "none"
    /\ \E quiet \in BOOLEAN, inds \in SeqsUpTo(IndicatorTexts, MaxIndicators),
          page_text \in PageTexts :
         /\ call' = "wait_for_navigation"
         /\ args' = [quiet |-> quiet, success_indicators |-> inds, page_text |-> page_text]
         /\ out' = WaitForNavigation(quiet, inds, page_text)
    /\ UNCHANGED runVars
    /\ UNCHANGED clickVars
    /\ UNCHANGED captureVars

NextUnits ==
    \/ VerifyLogin
    \/ ExtractStatusAfterSteps
    \/ ExecuteStep
    \/ ExecuteFirst \/ ExecuteSecond
    \/ FillStep
    \/ WaitForNavigationStep

SpecUnits == Init /\ [][NextUnits]_vars

----------------------------------------------------------------------------
\* ActionContext.substitute and its use by execute_action.  A string is a
\* tuple of characters; a field that is None or empty is << >>.
MaxTemplateParts == 2

ParamNames == <<"username", "password", "application_id", "student_name", "student_email">>

ParamToken ==
    [username |-> <<"{", "u", "s", "e", "r", "n", "a", "m", "e", "}">>,
     password |-> <<"{", "p", "a", "s", "s", "w", "o", "r", "d", "}">>,
     application_id |-> <<"{", "a", "p", "p", "l", "i", "c", "a", "t", "i", "o", "n",
                          "_", "i", "d", "}">>,
     student_name |-> <<"{", "s", "t", "u", "d", "e", "n", "t", "_", "n", "a", "m", "e", "}">>,
     student_email |-> <<"{", "s", "t", "u", "d", "e", "n", "t", "_", "e", "m", "a", "i", "l",
                         "}">>]

\* str.replace(old, new): every non-overlapping occurrence, left to right.
RECURSIVE Replace(_, _, _)
Replace(s, old, new) ==
    IF Len(s) < Len(old) THEN s
    ELSE IF SubSeq(s, 1, Len(old)) = old
         THEN new \o Replace(SubSeq(s, Len(old) + 1, Len(s)), old, new)
         ELSE <<s[1]>> \o Replace(Tail(s), old, new)

\* The replacements of substitute from the k-th parameter on, in the order
\* of the source, each applied to the result of the one before.
RECURSIVE SubstituteFrom(_, _, _)
SubstituteFrom(context, text, k) ==
    IF k > Len(ParamNames) THEN text
    ELSE LET f == ParamNames[k]
         IN  SubstituteFrom(context,
                            IF context[f] # << >>
                            THEN Replace(text, ParamToken[f], context[f])
                            ELSE text,
                            k + 1)

Substitute(context, value) ==
    IF value = << >> THEN value ELSE SubstituteFrom(context, value, 1)

RECURSIVE Flatten(_)
Flatten(parts) == IF parts = << >> THEN << >> ELSE Head(parts) \o Flatten(Tail(parts))

TemplateParts == {<<"x">>} \cup {ParamToken[ParamNames[k]] : k \in 1..Len(ParamNames)}

Templates == {Flatten(parts) : parts \in SeqsUpTo(TemplateParts, MaxTemplateParts)}

ActionContexts ==
    [username : {<< >>, <<"a">>, ParamToken.password},
     password : {<< >>, <<"b">>, ParamToken.username},
     application_id : {<< >>, <<"7">>},
     student_name : {<< >>, <<"n">>},
     student_email : {<< >>, <<"e">>}]

\* The head of execute_action, run once on each step and context drawn:
\* value is None when step.value is None or empty, and every hint is
\* substituted.
SubstituteStep ==
    /\ call = "none"
    /\ \E context \in ActionContexts, value \in Templates,
          hints \in SeqsUpTo(TemplateParts, 1) :
         /\ call' = "substitute"
         /\ args' = [context |-> context, value |-> value, hints |-> hints]
         /\ out' = [value_is_none |-> (value = << >>),
                    value |-> IF value = << >> THEN << >> ELSE Substitute(context, value),
                    hints |-> [k \in 1..Len(hints) |-> Substitute(context, hints[k])]]
    /\ UNCHANGED runVars
    /\ UNCHANGED clickVars
    /\ UNCHANGED captureVars

NextSubstitute == SubstituteStep

SpecSubstitute == Init /\ [][NextSubstitute]_vars

----------------------------------------------------------------------------
\* ActionExecutor._find_and_click: one click step on a page.

ClickSteps ==
    {[selectors |-> ss, hints |-> hs, use_javascript |-> j, opens_new_tab |-> o] :
        ss \in SeqsUpTo(BOOLEAN, MaxSelectors),
        hs \in SeqsUpTo(HintKinds, MaxHints),
        j \in BOOLEAN, o \in BOOLEAN}

\* The urls a page opened by a click can have.
NewPageUrls ==
    {<<"a", ".", "P", "D", "F">>,
     <<"b", "i", "n", "a", "r", "y", "-", "d", "o", "c", "u", "m", "e", "n", "t", "s">>,
     <<"i", "n", "l", "i", "n", "e", "=", "t", "r", "u", "e">>,
     <<"v", "i", "e", "w">>}

\* The pages open when a step begins: the portal, and possibly a page a
\* step before it has opened.
PagesAtEntry ==
    {<< <<"p", "o", "r", "t", "a", "l">> >>,
     << <<"p", "o", "r", "t", "a", "l">>, <<"v", "i", "e", "w">> >>}

\* The targets a strategy goes through: strategy 1 the selectors, strategies
\* 2, 3 and 4 the hints.
TargetsOf(step, strategy) ==
    IF strategy = 1 THEN step.selectors ELSE step.hints

\* The place of the handler when it comes to target k of a strategy: that
\* target, or the first target of the next strategy that has one, or
\* strategy 5, where all strategies have failed.
RECURSIVE Position(_, _, _)
Position(step, strategy, k) ==
    IF strategy > 4 THEN [strategy |-> 5, k |-> 0]
    ELSE IF k <= Len(TargetsOf(step, strategy)) THEN [strategy |-> strategy, k |-> k]
    ELSE Position(step, strategy + 1, 1)

\* The handler has not been entered (strategy 0) or has returned (6).
ClickIdle == [strategy |-> 0, k |-> 0]

ClickDone == [strategy |-> 6, k |-> 0]

\* return True / return False of _find_and_click.
ClickReturn(v, waited, seen) ==
    /\ out' = [returned |-> TRUE, success |-> v, waited |-> waited, seen |-> seen]
    /\ cpc' = ClickDone

\* The loop of a strategy goes on with its next target.
ClickContinue ==
    /\ cpc' = Position(args, cpc.strategy, cpc.k + 1)
    /\ UNCHANGED out

\* A click reaches an element.
ClickLands(via) ==
    clicks' = Append(clicks, [strategy |-> cpc.strategy, k |-> cpc.k, via |-> via])

\* The step is entered: initial_page_count is taken, then the strategies run.
FindAndClickEnter ==
    /\ cpc = ClickIdle
    /\ \E step \in ClickSteps, before \in PagesAtEntry :
         /\ args' = step
         /\ pages' = before
         /\ initial_page_count' = Len(before)
         /\ \E a \in 1..Len(before) : active' = a
         /\ cpc' = Position(step, 1, 1)
    /\ call' = "find_and_click"
    /\ out' = [returned |-> FALSE, success |-> FALSE, waited |-> 0, seen |-> "none"]
    /\ clicks' = << >>
    /\ UNCHANGED runVars
    /\ UNCHANGED captureVars

\* _click_with_new_tab_handling on a target that the click reaches (lands)
\* or not.  A click that lands opens a page that raises the popup event
\* ("event"), opens one without the event ("late") or opens none ("none");
\* loaded tells whether the adopted page becomes quiet in time.  Without a
\* popup event the page list is compared with initial_page_count and its last
\* page adopted.
\* new_page = all_pages[-1] (the popup itself when the popup event is seen)
NewPageFirst(ps) == 1

NewPage(ps) == Len(ps)

NewTabClick(lands, via) ==
    \E surface \in {"event", "late", "none"}, url \in NewPageUrls, loaded \in BOOLEAN :
        /\ (surface # "none") => (lands /\ Len(pages) < MaxPages)
        /\ IF lands THEN ClickLands(via) ELSE UNCHANGED clicks
        /\ pages' = IF surface # "none" THEN Append(pages, url) ELSE pages
        /\ IF Len(pages') > initial_page_count
           THEN /\ active' = NewPage(pages')
                /\ IF loaded
                   THEN ClickReturn(TRUE, NewPage(pages'),
                                    IF surface = "event" THEN "event" ELSE "poll")
                   ELSE ClickContinue
           ELSE /\ UNCHANGED active
                /\ ClickContinue

\* A click outside _click_with_new_tab_handling that lands: it may open a
\* page, which nobody looks at unless opens_new_tab is set.
OpensPage ==
    \/ UNCHANGED pages
    \/ /\ Len(pages) < MaxPages
       /\ \E url \in NewPageUrls : pages' = Append(pages, url)

\* Strategy 1, one selector: the script or page.click, or the new-tab helper.
ClickBySelector ==
    /\ cpc.strategy = 1
    /\ LET matches == args.selectors[cpc.k]
       IN  IF args.opens_new_tab
           THEN NewTabClick(matches, "selector")
           ELSE IF matches
                THEN /\ ClickLands("selector")
                     /\ OpensPage
                     /\ ClickReturn(TRUE, 0, "none")
                     /\ UNCHANGED active
                ELSE /\ ClickContinue
                     /\ UNCHANGED <<clicks, pages, active>>
    /\ UNCHANGED <<call, args, initial_page_count>>
    /\ UNCHANGED runVars
    /\ UNCHANGED captureVars

\* Strategy 2, one hint: click_element(text=hint), which clicks and then
\* waits for the page to be quiet, returning False when that wait times out;
\* or the new-tab helper.
ClickByHint ==
    /\ cpc.strategy = 2
    /\ LET matches == args.hints[cpc.k] = "visible"
       IN  IF args.opens_new_tab
           THEN NewTabClick(matches, "hint")
           ELSE IF matches
                THEN /\ ClickLands("hint")
                     /\ OpensPage
                     /\ \E quiet \in BOOLEAN :
                          IF quiet THEN ClickReturn(TRUE, active, "none") ELSE ClickContinue
                     /\ UNCHANGED active
                ELSE /\ ClickContinue
                     /\ UNCHANGED <<clicks, pages, active>>
    /\ UNCHANGED <<call, args, initial_page_count>>
    /\ UNCHANGED runVars
    /\ UNCHANGED captureVars

\* After a click of strategy 3 or 4 has landed: with opens_new_tab the page
\* list is compared with initial_page_count, the last page adopted and
\* waited for; when that wait times out the loop goes on with the next hint.
AfterLateClick ==
    /\ OpensPage
    /\ IF args.opens_new_tab /\ Len(pages') > initial_page_count
       THEN /\ active' = NewPage(pages')
            /\ \E loaded \in BOOLEAN :
                 IF loaded THEN ClickReturn(TRUE, NewPage(pages'), "poll") ELSE ClickContinue
       ELSE /\ UNCHANGED active
            /\ ClickReturn(TRUE, 0, "none")

\* Strategy 3, one hint: the script that searches the overlay, the text
\* nodes and then every element for the text, and clicks what it finds.
ClickByScript ==
    /\ cpc.strategy = 3
    /\ IF args.hints[cpc.k] \in {"overlay", "visible"}
       THEN /\ ClickLands("hint")
            /\ AfterLateClick
       ELSE /\ ClickContinue
            /\ UNCHANGED <<clicks, pages, active>>
    /\ UNCHANGED <<call, args, initial_page_count>>
    /\ UNCHANGED runVars
    /\ UNCHANGED captureVars

\* Strategy 4, one hint: page.click on a:has-text("hint").
ClickByLinkText ==
    /\ cpc.strategy = 4
    /\ IF args.hints[cpc.k] = "visible"
       THEN /\ ClickLands("hint")
            /\ AfterLateClick
       ELSE /\ ClickContinue
            /\ UNCHANGED <<clicks, pages, active>>
    /\ UNCHANGED <<call, args, initial_page_count>>
    /\ UNCHANGED runVars
    /\ UNCHANGED captureVars

\* All strategies failed: a screenshot is taken and False returned.
ClickAllFailed ==
    /\ cpc.strategy = 5
    /\ ClickReturn(FALSE, 0, "none")
    /\ UNCHANGED <<call, args, pages, active, initial_page_count, clicks>>
    /\ UNCHANGED runVars
    /\ UNCHANGED captureVars

NextClick ==
    \/ FindAndClickEnter
    \/ ClickBySelector \/ ClickByHint \/ ClickByScript \/ ClickByLinkText
    \/ ClickAllFailed

SpecClick == Init /\ [][NextClick]_vars

----------------------------------------------------------------------------
\* One click step of DownloadAgent.download_offer (triggers_download or
\* opens_new_tab) with the pages of the browser context made explicit.  The
\* click itself is _find_and_click, above; what follows it is the capture
\* code of the agent.  The listeners, the fetch inside a page and the pages a
\* click opens are the environment's.  A closed page keeps its place in
\* pages and is recorded in closed_pages: the step reads pages no more after
\* closing one.

DownloadClickSteps ==
    {d \in {[selectors |-> c.selectors, hints |-> c.hints,
             use_javascript |-> c.use_javascript,
             opens_new_tab |-> c.opens_new_tab,
             triggers_download |-> t] : c \in ClickSteps, t \in BOOLEAN} :
        d.triggers_download \/ d.opens_new_tab}

\* 'pdf' in url.lower() or 'binary-documents' in url or 'inline=true' in url
HasDocumentMarker(url) ==
    \/ Contains(Lower(url), <<"p", "d", "f">>)
    \/ Contains(url, <<"b", "i", "n", "a", "r", "y", "-", "d", "o", "c", "u", "m", "e", "n", "t", "s">>)
    \/ Contains(url, <<"i", "n", "l", "i", "n", "e", "=", "t", "r", "u", "e">>)

\* The page the trigger branch looks at: none (0) unless there are more
\* pages than before the click, and then the first page of the context that
\* is not current_page and whose url is not current_page's; the loop breaks
\* there.
TriggerPageExamined(ps, before, cur) ==
    LET differs == {i \in 1..Len(ps) : i # cur /\ ps[i] # ps[cur]}
    IN  IF Len(ps) > before /\ differs # {}
        THEN CHOOSE i \in differs : \A j \in differs : i <= j
        ELSE 0

\* The page the popup branch looks at: the last page of the context when
\* there is more than one page, else none (0).
PopupPageExamined(ps) == IF Len(ps) > 1 THEN Len(ps) ELSE 0

\* What the capture code sees in the page it examines.
SurfaceSeen(ps, i) ==
    IF i = 0 THEN "none"
    ELSE IF HasDocumentMarker(ps[i]) THEN "pdf" ELSE "other"

\* browser.page after page.close() on page i: close does not assign it, so
\* it goes on naming the page it named, closed or not.
ActiveAfterCloseFallsBack(a, i) == IF a = i THEN 1 ELSE a

ActiveAfterClose(a, i) == a

\* The page is fetched from and closed when its url has a marker, whether
\* or not the fetch succeeds.
FetchAndClose(i) ==
    IF SurfaceSeen(pages, i) = "pdf"
    THEN /\ fetched_pages' = fetched_pages \cup {i}
         /\ closed_pages' = closed_pages \cup {i}
         /\ active' = ActiveAfterClose(active, i)
    ELSE UNCHANGED <<fetched_pages, closed_pages, active>>

DownloadClickEnter ==
    /\ dpc = "idle" /\ cpc = ClickIdle
    /\ \E step \in DownloadClickSteps, before \in PagesAtEntry :
         /\ args' = step
         /\ pages' = before
         /\ initial_page_count' = Len(before)
         /\ pages_before' = Len(before)
         /\ \E a \in 1..Len(before) : active' = a /\ current_page' = a
         /\ cpc' = Position(step, 1, 1)
         /\ download_event' = IF step.triggers_download THEN "armed" ELSE "none"
    /\ call' = "find_and_click"
    /\ out' = [returned |-> FALSE, success |-> FALSE, waited |-> 0, seen |-> "none"]
    /\ clicks' = << >>
    /\ dpc' = "click"
    /\ UNCHANGED <<fetched_pages, closed_pages, artifact>>
    /\ UNCHANGED runVars

\* Whether the pages of the context are read after the listeners: only in
\* the except clause of the second listener, so when neither got a download.
PagesReadAlways(event) == TRUE

PagesRead(event) == event = "none"

\* triggers_download: the click ran inside the first listener; after it has
\* returned, the first listener, the second, and then the pages of the
\* context.  A download that arrives and cannot be saved counts as none.
DownloadTriggerCapture ==
    /\ dpc = "click" /\ cpc = ClickDone /\ args.triggers_download
    /\ \E event \in {"first", "retry", "none"}, fetch_ok \in BOOLEAN :
         LET i == TriggerPageExamined(pages, pages_before, current_page)
         IN  /\ (event # "none") => (clicks # << >>)
             /\ download_event' = event
             /\ artifact' = AfterTrigger(artifact, event, SurfaceSeen(pages, i), fetch_ok)
             /\ IF PagesRead(event) THEN FetchAndClose(i)
                ELSE UNCHANGED <<fetched_pages, closed_pages, active>>
    /\ dpc' = "done"
    /\ UNCHANGED <<call, args, out, pages, initial_page_count, cpc, clicks,
                   pages_before, current_page>>
    /\ UNCHANGED runVars

\* opens_new_tab without triggers_download: no listener; after the click has
\* returned, the last page of the context.
DownloadPopupCapture ==
    /\ dpc = "click" /\ cpc = ClickDone /\ ~args.triggers_download
    /\ \E fetch_ok \in BOOLEAN :
         LET i == PopupPageExamined(pages)
         IN  /\ artifact' = AfterPopup(artifact, SurfaceSeen(pages, i), fetch_ok)
             /\ FetchAndClose(i)
    /\ dpc' = "done"
    /\ UNCHANGED <<call, args, out, pages, initial_page_count, cpc, clicks,
                   pages_before, current_page, download_event>>
    /\ UNCHANGED runVars

NextCapture ==
    \/ DownloadClickEnter
    \/ ClickBySelector \/ ClickByHint \/ ClickByScript \/ ClickByLinkText
    \/ ClickAllFailed
    \/ DownloadTriggerCapture \/ DownloadPopupCapture

SpecCapture == Init /\ [][NextCapture]_vars

----------------------------------------------------------------------------
\* Steps run one after the other on the same browser: a click step, with
\* the capture code of the download agent when the step has a flag for it,
\* and then switch-tab steps and steps of the other kinds.

MaxTabTargets == 1

TabSteps ==
    [selectors : SeqsUpTo(BOOLEAN, MaxTabTargets),
     hints : SeqsUpTo(HintKinds, MaxTabTargets),
     use_javascript : BOOLEAN, opens_new_tab : BOOLEAN, triggers_download : BOOLEAN]

StepsBegin ==
    /\ dpc = "idle" /\ cpc = ClickIdle
    /\ \E step \in TabSteps, before \in PagesAtEntry :
         /\ args' = step
         /\ pages' = before
         /\ initial_page_count' = Len(before)
         /\ pages_before' = Len(before)
         /\ \E a \in 1..Len(before) : active' = a /\ current_page' = a
         /\ cpc' = Position(step, 1, 1)
         /\ dpc' = IF step.triggers_download \/ step.opens_new_tab THEN "click" ELSE "done"
         /\ download_event' = IF step.triggers_download THEN "armed" ELSE "none"
    /\ call' = "find_and_click"
    /\ out' = [returned |-> FALSE, success |-> FALSE, waited |-> 0, seen |-> "none"]
    /\ clicks' = << >>
    /\ UNCHANGED <<fetched_pages, closed_pages, artifact>>
    /\ UNCHANGED runVars

\* ActionExecutor._switch_to_new_tab: after a wait, the last page of the
\* context is adopted when the context has more than one page, and waited
\* for.  known and count are history: the number of pages the executor saw
\* when it last read the page list before this step, and the number it sees
\* now.
SwitchToNewTab ==
    /\ cpc = ClickDone /\ dpc = "done"
    /\ call' = "switch_to_new_tab"
    /\ \E loaded \in BOOLEAN :
         LET known == IF call = "switch_to_new_tab" THEN out.count ELSE initial_page_count
             found == Len(pages) > 1
         IN  /\ active' = IF found THEN NewPage(pages) ELSE active
             /\ out' = [returned |-> TRUE, success |-> found /\ loaded,
                        waited |-> IF found /\ loaded THEN NewPage(pages) ELSE 0,
                        seen |-> "poll", known |-> known, count |-> Len(pages),
                        active_before |-> active]
    /\ UNCHANGED <<args, pages, initial_page_count, cpc, clicks>>
    /\ UNCHANGED captureVars
    /\ UNCHANGED runVars

\* A step of another kind: it may open a page (a key pressed, a form
\* submitted) and assigns browser.page nowhere.
OtherActionStep ==
    /\ cpc = ClickDone /\ dpc = "done" /\ call = "find_and_click"
    /\ \E a \in ActionType \ {"find_and_click", "switch_to_new_tab"} : call' = a
    /\ OpensPage
    /\ UNCHANGED <<args, out, active, initial_page_count, cpc, clicks>>
    /\ UNCHANGED captureVars
    /\ UNCHANGED runVars

NextTabs ==
    \/ StepsBegin
    \/ ClickBySelector \/ ClickByHint \/ ClickByScript \/ ClickByLinkText
    \/ ClickAllFailed
    \/ DownloadTriggerCapture \/ DownloadPopupCapture
    \/ SwitchToNewTab \/ OtherActionStep

SpecTabs == Init /\ [][NextTabs]_vars

----------------------------------------------------------------------------
\* Properties.

\* C1: execute always hands a result to its caller: no exception leaves it,
\* whatever fails inside the run.
C1_NoExceptionReachesCaller == pc # "raised"

\* C2: in a V2 run the engine's state only moves forward along INIT, LOGIN,
\* FIND_APPLICATION, CHECK_STATUS, DOWNLOAD, COMPLETE (DOWNLOAD may be
\* skipped), or to FAILED, which it never leaves.
C2_StateOrder ==
    [][LET StateSucc(s) ==
               CASE s = "init" -> {"login"}
                 [] s = "login" -> {"find_application"}
                 [] s = "find_application" -> {"check_status"}
                 [] s = "check_status" -> {"download", "complete"}
                 [] s = "download" -> {"complete"}
                 [] OTHER -> {}
       IN  (use_v2' /\ state' # state) =>
               (state' \in StateSucc(state) \/ state' = "failed")]_vars

C2_Witness ==
    /\ use_v2 /\ pc = "returned" /\ state = "complete"
    /\ invoked = <<"login", "navigation", "download">>

\* C3: when execute returns, a result with success=false comes with state
\* FAILED and a result with success=true with state COMPLETE.
C3_TerminalStateOnReturn ==
    pc = "returned" => IF result.success THEN state = "complete" ELSE state = "failed"

\* C4: the phase agents are invoked at most once each, in the order login,
\* navigation, download, and none is invoked after one has returned failure.
C4_PhasesOnceInOrder ==
    /\ invoked \in {<< >>, <<"login">>, <<"login", "navigation">>,
                    <<"login", "navigation", "download">>}
    /\ \A k \in 1..Len(invoked) : k < Len(invoked) => phase_ok[invoked[k]] = "ok"

C4_Witness ==
    /\ use_v2 /\ pc = "returned"
    /\ invoked = <<"login", "navigation">>
    /\ phase_ok["login"] = "ok" /\ phase_ok["navigation"] = "fail"

C6_LoginOrNavigationFailure ==
    (phase_ok["login"] = "fail" \/ phase_ok["navigation"] = "fail") =>
        /\ phase_ok["download"] = "none"
        /\ \A k \in 1..Len(invoked) : invoked[k] # "download"
        /\ result # NoResult =>
              /\ ~result.success
              /\ result.status = "unknown"
              /\ ~result.offer_downloaded
              /\ result.offer_path = "None"

C6_Witness ==
    /\ use_v2 /\ pc = "returned"
    /\ phase_ok["navigation"] = "fail"
    /\ result.status = "unknown" /\ ~result.success

\* C7: the download phase is invoked only with status OFFER_READY or
\* ACCEPTED, under a V2 config and under a V1 config.
C7_DownloadOnlyForOfferOrAccepted ==
    (\E k \in 1..Len(invoked) : invoked[k] = "download") =>
        status \in {"offer_ready", "accepted"}

\* C8: a phase agent starts at most max_retries attempts, each from the
\* first step; it returns success in the first attempt that succeeds and
\* failure only after max_retries attempts have failed.
C8_RetryLoop ==
    phase \in Phases =>
        /\ started <= wf.max_retries
        /\ failed <= started
        /\ apc \in {"steps", "except"} => attempt = started
        /\ executed # << >> => executed[1].i = 1
        /\ (apc = "steps" /\ executed = << >>) => idx = 1
        /\ (apc = "returned" /\ ret.ok) => failed = started - 1
        /\ (apc = "returned" /\ ~ret.ok) =>
              (failed = wf.max_retries /\ started = wf.max_retries)

C8_Witness ==
    /\ phase = "login" /\ apc = "returned" /\ ret.ok
    /\ wf.max_retries = 2 /\ started = 2 /\ failed = 1
    /\ Len(wf.steps) = 2 /\ Len(executed) = 2

\* C9: in each phase agent a step with optional=false that returns
\* success=false is the last step of its attempt, and the attempt fails
\* because of it.
C9_RequiredFailureHaltsAttempt ==
    phase \in Phases =>
        \A k \in 1..Len(executed) :
            (~wf.steps[executed[k].i].optional /\ ~executed[k].success) =>
                (k = Len(executed) /\ abort_step = executed[k].i)

\* C10: in each phase agent a failing step with optional=true (the handler
\* returned failure or raised) does not abort the attempt: the agent goes on
\* with the next step.
C10_OptionalFailureContinues ==
    phase \in Phases =>
        /\ abort_step # 0 => ~wf.steps[abort_step].optional
        /\ \A k \in 1..Len(executed) :
              (wf.steps[executed[k].i].optional /\ executed[k].raw # "ok") =>
                  IF k < Len(executed)
                  THEN executed[k + 1].i = executed[k].i + 1
                  ELSE idx = executed[k].i + 1

C10_Witness ==
    /\ phase = "login" /\ apc = "steps"
    /\ Len(executed) = 2
    /\ wf.steps[1].optional /\ executed[1].raw = "raise"

\* C11: within an attempt the steps executed are the first steps of the
\* workflow, each once and in config order, and the agent stands at exactly
\* one step: the one after the last executed, or the one that aborted.
C11_StepsArePrefixInOrder ==
    (phase \in Phases /\ apc \in {"steps", "except"}) =>
        /\ Len(executed) <= Len(wf.steps)
        /\ \A k \in 1..Len(executed) : executed[k].i = k
        /\ idx = IF abort_step # 0 THEN Len(executed) ELSE Len(executed) + 1

C11_Witness ==
    /\ phase = "download" /\ apc = "steps"
    /\ Len(wf.steps) = 2 /\ Len(executed) = 2
    /\ executed[1].i = 1 /\ executed[2].i = 2

\* C12: after the steps of a login attempt the attempt is failed exactly
\* when the lower-cased page text has a login marker and no dashboard
\* marker; with a marker of each kind the attempt is logged in.
C12_LoginVerification ==
    call = "verify_login" =>
        LET t == Lower(args.page_text)
            login_marker ==
                \/ Contains(t, <<"s", "i", "g", "n", " ", "i", "n">>)
                \/ Contains(t, <<"l", "o", "g", "i", "n">>)
                \/ Contains(t, <<"u", "s", "e", "r", "n", "a", "m", "e">>)
                \/ Contains(t, <<"p", "a", "s", "s", "w", "o", "r", "d">>)
            dashboard_marker ==
                \/ Contains(t, <<"d", "a", "s", "h", "b", "o", "a", "r", "d">>)
                \/ Contains(t, <<"w", "e", "l", "c", "o", "m", "e">>)
                \/ Contains(t, <<"a", "p", "p", "l", "i", "c", "a", "t", "i", "o", "n", "s">>)
                \/ Contains(t, <<"l", "o", "g", "o", "u", "t">>)
        IN  /\ out = "failed" <=> (login_marker /\ ~dashboard_marker)
            /\ out = "logged_in" <=> ~(login_marker /\ ~dashboard_marker)

C12_Witness ==
    /\ call = "verify_login"
    /\ args.page_text = <<"S", "i", "g", "n", " ", "i", "n", " ", "D", "a", "s", "h", "b", "o", "a", "r", "d">>
    /\ out = "logged_in"

\* C13: when a configured pattern occurs in the page text, whatever the
\* case of either, extract_status gives the first status in the order
\* offer_ready, accepted, rejected, pending that has such a pattern,
\* whatever the vision service replies.
C13_PatternPriority ==
    call = "extract_status" =>
        LET hit(st) == \E pat \in args.table[st] :
                          Contains(Lower(args.page_text), Lower(pat))
        IN  /\ hit("offer_ready") => out.found_status = "offer_ready"
            /\ (~hit("offer_ready") /\ hit("accepted")) => out.found_status = "accepted"
            /\ (~hit("offer_ready") /\ ~hit("accepted") /\ hit("rejected")) =>
                   out.found_status = "rejected"
            /\ (~hit("offer_ready") /\ ~hit("accepted") /\ ~hit("rejected") /\ hit("pending")) =>
                   out.found_status = "pending"

C13_Witness ==
    /\ call = "extract_status"
    /\ args.page_text = <<"O", "f", "f", "e", "r", " ", "p", "e", "n", "d", "i", "n", "g">>
    /\ args.table.pending = {<<"P", "e", "n", "d", "i", "n", "g">>}
    /\ args.table.offer_ready = {<<"O", "f", "f", "e", "r">>}
    /\ ~args.reply.raised
    /\ args.reply.text = <<"D", "e", "c", "l", "i", "n", "e", "d">>
    /\ out.found_status = "offer_ready"

\* C14: when no configured pattern occurs in the page text and the vision
\* service gives a description, the status is inferred from its lower-cased
\* words: offer-ready keywords first, then accepted keywords, then rejected
\* keywords, and PENDING when it has none of them.
C14_VisionClassifier ==
    (call = "extract_status" /\ ~args.reply.raised) =>
        LET hit(st) == \E pat \in args.table[st] :
                          Contains(Lower(args.page_text), Lower(pat))
            v == Lower(args.reply.text)
            has(w) == Contains(v, w)
            offer_word ==
                \/ has(<<"o", "f", "f", "e", "r">>)
                \/ has(<<"c", "o", "n", "d", "i", "t", "i", "o", "n", "a", "l">>)
                \/ has(<<"u", "n", "c", "o", "n", "d", "i", "t", "i", "o", "n", "a", "l">>)
                \/ has(<<"a", "c", "c", "e", "p", "t", "a", "n", "c", "e">>)
            accepted_word ==
                \/ has(<<"a", "c", "c", "e", "p", "t", "e", "d">>)
                \/ has(<<"e", "n", "r", "o", "l", "l", "e", "d">>)
                \/ has(<<"d", "e", "p", "o", "s", "i", "t">>)
            rejected_word ==
                \/ has(<<"r", "e", "j", "e", "c", "t", "e", "d">>)
                \/ has(<<"d", "e", "c", "l", "i", "n", "e", "d">>)
                \/ has(<<"n", "o", "t", " ", "a", "c", "c", "e", "p", "t", "e", "d">>)
        IN  (\A st \in {"offer_ready", "accepted", "rejected", "pending"} : ~hit(st)) =>
                out.found_status =
                    IF offer_word THEN "offer_ready"
                    ELSE IF accepted_word THEN "accepted"
                    ELSE IF rejected_word THEN "rejected"
                    ELSE "pending"

C14_Witness ==
    /\ call = "extract_status"
    /\ args.table = StatusDetectionConfig({}, {}, {}, {})
    /\ ~args.reply.raised
    /\ args.reply.text = <<"O", "f", "f", "e", "r", " ", "r", "e", "j", "e", "c", "t", "e", "d">>
    /\ out.found_status = "offer_ready"

\* C15: when the call of the vision service raises during status
\* extraction, navigation still returns success, with the status of the
\* first matching pattern when there is one and PENDING otherwise.
C15_OracleFailureNotFatal ==
    (call = "extract_status" /\ args.reply.raised) =>
        LET hit(st) == \E pat \in args.table[st] :
                          Contains(Lower(args.page_text), Lower(pat))
        IN  /\ out.ok
            /\ out.found_status =
                   IF hit("offer_ready") THEN "offer_ready"
                   ELSE IF hit("accepted") THEN "accepted"
                   ELSE IF hit("rejected") THEN "rejected"
                   ELSE "pending"

C15_Witness ==
    /\ call = "extract_status"
    /\ args.reply.raised
    /\ args.reply.text = <<"A", "c", "c", "e", "p", "t", "e", "d">>
    /\ args.page_text = <<"M", "y", " ", "P", "o", "r", "t", "a", "l">>
    /\ out.ok /\ out.found_status = "pending"

C16_SelectorPreemptsHint ==
    (call = "find_and_click"
        /\ (\E i \in 1..Len(args.selectors) : args.selectors[i])
        /\ (\E i \in 1..Len(args.hints) : args.hints[i] = "visible")) =>
        /\ \A c \in 1..Len(clicks) : clicks[c].via = "selector"
        /\ out.returned => (out.success /\ clicks # << >>)

\* C17: at most one click of a click step reaches the page.
C17_AtMostOneClick ==
    call = "find_and_click" => Len(clicks) <= 1

\* C19: when a triggering click of the download phase brings no download
\* event and has opened one page, whose url holds a document marker, that
\* page is the one fetched from and then closed, and nothing is rendered.
C19_MarkerSurfaceIsFetched ==
    (/\ dpc = "done" /\ download_event = "none"
     /\ Len(pages) = pages_before + 1
     /\ HasDocumentMarker(pages[Len(pages)]))
        => /\ Len(pages) \in fetched_pages
           /\ Len(pages) \in closed_pages
           /\ artifact # "rendered"

\* C20: when a triggering click of the download phase brings no download
\* event and has opened one page, whose url holds no document marker, that
\* page is rendered to a document and the document is the step's artifact.
C20_OtherSurfaceIsRendered ==
    (/\ dpc = "done" /\ download_event = "none"
     /\ Len(pages) = pages_before + 1
     /\ ~HasDocumentMarker(pages[Len(pages)]))
        => artifact = "rendered"

C22_StoreOnlyAfterCapture ==
    use_v2 =>
        /\ stored # {} => \E k \in 1..Len(invoked) : invoked[k] = "download"
        /\ "save_metadata" \in stored => phase_ok["download"] = "ok"
        /\ (pc = "returned" /\ phase_ok["download"] # "ok") => stored = {}

C24_ConstantRetryDelay ==
    phase \in Phases =>
        /\ \A k \in 1..Len(slept) : slept[k] = wf.retry_delay
        /\ apc \in {"steps", "except"} => Len(slept) = started - 1
        /\ apc = "loop" => Len(slept) = started
        /\ (apc = "returned" /\ ret.ok) => Len(slept) = started - 1
        /\ (apc = "returned" /\ ~ret.ok /\ wf.max_retries >= 1) =>
              (started = wf.max_retries /\ Len(slept) = wf.max_retries - 1)

C24_Witness ==
    /\ phase = "download" /\ apc = "returned" /\ ~ret.ok
    /\ wf.max_retries = 3 /\ wf.retry_delay = 3
    /\ slept = <<3, 3>>

\* C25: in a click step with opens_new_tab, a page that has appeared since
\* the step began is the active page as soon as the resolver has seen it,
\* through the popup event or through the poll of the page list that follows
\* when no popup event came; the step returns success with such a page only
\* after the wait for that page to be quiet has ended well.
C25_NewSurfaceAdopted ==
    (call = "find_and_click" /\ args.opens_new_tab /\ Len(pages) > initial_page_count) =>
        /\ active = Len(pages)
        /\ (out.returned /\ out.success) =>
              (out.waited = Len(pages) /\ out.seen \in {"event", "poll"})

C25_Witness ==
    /\ call = "find_and_click" /\ args.opens_new_tab
    /\ Len(pages) = initial_page_count + 1 /\ active = Len(pages)
    /\ out.returned /\ out.success /\ out.seen = "poll" /\ out.waited = active
    /\ Len(clicks) = 1 /\ clicks[1].strategy = 1

\* C26: a fill step succeeds when one of its selectors fills the field,
\* and otherwise when the text lookup finds an input field for one of its
\* hints; it fails only when neither a selector nor a hint finds a field.
C26_FillBySelectorThenHint ==
    call = "find_and_fill" =>
        (out <=> \/ \E k \in 1..Len(args.selectors) : args.selectors[k]
                 \/ \E k \in 1..Len(args.hints) : args.hints[k] = "visible")

\* C27: a wait-for-navigation step whose page becomes quiet succeeds
\* exactly when it has no success indicator or one of its indicators occurs
\* in the page text, letter case ignored; when the page does not become
\* quiet within the timeout the step fails.
C27_WaitForNavigation ==
    call = "wait_for_navigation" =>
        LET occurs(ind, text) ==
                \E q \in 0..(Len(text) - Len(ind)) :
                    \A j \in 1..Len(ind) : LowerChar(text[q + j]) = LowerChar(ind[j])
        IN  /\ ~args.quiet => ~out
            /\ args.quiet =>
                  (out <=> \/ Len(args.success_indicators) = 0
                           \/ \E k \in 1..Len(args.success_indicators) :
                                 occurs(args.success_indicators[k], args.page_text))

C27_Witness ==
    /\ call = "wait_for_navigation" /\ args.quiet /\ out
    /\ args.success_indicators = << <<"L", "o", "g", "o", "u", "t">>, <<"P", "O", "R", "T", "A", "L">> >>
    /\ args.page_text = <<"M", "y", " ", "P", "o", "r", "t", "a", "l">>

\* C28: a switch-tab step adopts the newest page and reports success only
\* when more pages are open than when the page list was last read; when no
\* page has opened since, it reports failure and the active page stays.
C28_SwitchNeedsNewSurface ==
    call = "switch_to_new_tab" =>
        /\ out.success => out.count > out.known
        /\ out.count <= out.known => (~out.success /\ active = out.active_before)

\* C29: once the steps have begun, the active page reference changes only
\* in a step of a click with opens_new_tab set that is executing, or in a
\* switch-tab step; steps of the other kinds, clicks without opens_new_tab
\* and the capture code of the download agent leave it as it is.
C29_ActiveChangesOnlyInTabSteps ==
    [][(dpc # "idle" /\ active' # active) =>
           \/ (call = "find_and_click" /\ cpc # ClickDone /\ args.opens_new_tab)
           \/ call' = "switch_to_new_tab"]_vars

\* A click with opens_new_tab adopted the page it opened, and the capture
\* code then closed that page: the reference still names it.
C29_Witness ==
    /\ dpc = "done" /\ call = "find_and_click"
    /\ args.opens_new_tab
    /\ active # current_page
    /\ active \in closed_pages

\* C30: the value and every hint handed on are the step's texts with each
\* parameter token of a set field replaced by the field and the tokens of
\* unset fields left as written, in one pass over the text: what was put
\* in for one parameter is not read again for another.
C30_SubstitutionIsSinglePass ==
    LET Matches(context, s) ==
            {k \in 1..Len(ParamNames) :
                /\ context[ParamNames[k]] # << >>
                /\ Len(s) >= Len(ParamToken[ParamNames[k]])
                /\ SubSeq(s, 1, Len(ParamToken[ParamNames[k]])) = ParamToken[ParamNames[k]]}
        RECURSIVE OnePass(_, _)
        OnePass(context, s) ==
            IF s = << >> THEN << >>
            ELSE IF Matches(context, s) = {} THEN <<s[1]>> \o OnePass(context, Tail(s))
            ELSE LET f == ParamNames[CHOOSE k \in Matches(context, s) : TRUE]
                 IN  context[f]
                     \o OnePass(context, SubSeq(s, Len(ParamToken[f]) + 1, Len(s)))
    IN  call = "substitute" =>
            /\ out.value = OnePass(args.context, args.value)
            /\ \A k \in 1..Len(args.hints) :
                   out.hints[k] = OnePass(args.context, args.hints[k])

\* C31: a download attempt whose steps all ran and that captured no file
\* ends in the except clause like any failed attempt; a failed attempt is
\* followed by the next one while attempt < max_retries; and the agent
\* returns no path only when max_retries attempts have been started and
\* have failed.
C31_NoFileIsRetried ==
    /\ []((phase = "download" /\ apc = "returned" /\ ~ret.ok) =>
              (started = wf.max_retries /\ failed = wf.max_retries))
    /\ [][/\ (phase = "download" /\ apc = "steps" /\ idx > Len(wf.steps)
                /\ download_result = "None") =>
                  (apc' = "except" /\ attempt' = attempt)
          /\ (phase = "download" /\ apc = "except" /\ attempt < wf.max_retries) =>
                  (apc' = "loop" /\ attempt' = attempt + 1)]_vars

\* Two attempts were made, the second ran every step and caught no file,
\* and the agent has returned no path.
C31_Witness ==
    /\ phase = "download" /\ apc = "returned" /\ ~ret.ok
    /\ wf.max_retries = 2 /\ started = 2 /\ failed = 2
    /\ wf.steps # << >> /\ Len(executed) = Len(wf.steps)
    /\ abort_step = 0 /\ download_result = "None"

\* C32: in a click step with triggers_download the download listener is
\* armed for as long as the click runs, so before any click is dispatched;
\* a page is fetched or closed only in the step of the capture code in
\* which neither listener delivered a download; and when a listener
\* delivered one, the step has fetched and closed no page.
C32_ListenerBeforeClickAndFetchLast ==
    /\ []((dpc = "click" /\ args.triggers_download) => download_event = "armed")
    /\ []((dpc = "done" /\ args.triggers_download /\ download_event \in {"first", "retry"}) =>
              (fetched_pages = {} /\ closed_pages = {} /\ artifact = "native"))
    /\ [][(dpc = "click" /\ args.triggers_download
             /\ (fetched_pages' # fetched_pages \/ closed_pages' # closed_pages)) =>
                 (cpc = ClickDone /\ download_event' = "none")]_vars

\* A click landed and opened a page with a document marker, the listener
\* delivered the download, and the page was left alone.
C32_Witness ==
    /\ dpc = "done" /\ args.triggers_download
    /\ download_event = "first" /\ clicks # << >>
    /\ Len(pages) > pages_before
    /\ SurfaceSeen(pages, TriggerPageExamined(pages, pages_before, current_page)) = "pdf"
    /\ fetched_pages = {} /\ closed_pages = {}

\* C33: when the login or the navigation agent returns failure after at
\* least one failed attempt, the failed result the engine returns has the
\* message of the error that ended the last attempt: "<Phase> step i
\* failed" when a required step failed, the text of the verification or
\* extraction error otherwise.
C33_MessageIsLastError ==
    [][LET number == CASE abort_step = 1 -> "1" [] abort_step = 2 -> "2"
                       [] abort_step = 3 -> "3" [] OTHER -> "n"
           last == IF abort_step # 0
                   THEN (IF phase = "login" THEN "Login step " ELSE "Navigation step ")
                            \o number \o " failed"
                   ELSE IF phase = "login"
                        THEN "Login verification failed - still on login page"
                        ELSE "status extraction failed"
       IN  (/\ pc \in {"v2_after_login", "v2_after_navigation"}
            /\ apc = "returned" /\ ~ret.ok /\ failed > 0
            /\ pc' = "finally") =>
               result'.message = last]_vars

\* C34: status extraction calls the vision service only when no configured
\* pattern occurs in the page text.
C34_OracleOnlyWithoutPattern ==
    call = "extract_status" =>
        (out.vision_called => PatternStatus(args.table, args.page_text) = "None")

\* C35: the page browser.page names is open: it is none of the pages the
\* download agent has closed.
C35_ActivePageIsOpen ==
    dpc # "idle" => active \notin closed_pages

\* C36: when a click step has returned success=false, browser.page is the
\* page it was when the step began.
C36_FailedClickKeepsActive ==
    (call = "find_and_click" /\ cpc = ClickDone /\ ~out.success) =>
        active = current_page

\* C37: when a result reaches the caller of execute and a browser was
\* created, the browser has been closed; it is closed in the finally clause
\* and nowhere else, stays closed, and once it is closed execute has
\* returned, so no agent runs a step on a closed browser.
C37_BrowserClosedOnceOnExit ==
    /\ []((pc = "returned" /\ browser # "None") => browser = "closed")
    /\ [](browser = "closed" => (pc = "returned" /\ apc \in {"idle", "returned"}))
    /\ [][/\ (browser' = "closed" /\ browser # "closed") =>
                (pc = "finally" /\ pc' = "returned")
          /\ browser = "closed" => browser' = "closed"]_vars

\* An exception left the try block after an agent had been called, and the
\* failed result has reached the caller with the browser closed.
C37_Witness ==
    /\ pc = "returned" /\ browser = "closed"
    /\ exc # "none" /\ invoked # << >>
    /\ ~result.success

\* C38: a navigation that returns success has found one of OFFER_READY,
\* ACCEPTED, REJECTED and PENDING, and every successful result of a V2 run
\* has one of these four as its status.
C38_SuccessfulV2StatusIsOneOfFour ==
    LET four == {"offer_ready", "accepted", "rejected", "pending"}
    IN  /\ (phase = "navigation" /\ apc = "returned" /\ ret.ok) => ret.found_status \in four
        /\ (use_v2 /\ pc \in {"finally", "returned"} /\ result.success) =>
               result.status \in four

\* A V2 run has returned success with the status no pattern and no keyword
\* gave.
C38_Witness ==
    /\ use_v2 /\ pc = "returned" /\ result.success
    /\ result.status = "pending"
    /\ invoked = <<"login", "navigation">>

\* C39: when no pattern occurs in the page text and the description the
\* vision service gave has one of 'rejected', 'declined', 'not accepted'
\* and none of the offer-ready keywords, the status found is REJECTED.
C39_RejectedKeywordGivesRejected ==
    (call = "extract_status" /\ ~args.reply.raised) =>
        LET v == Lower(args.reply.text)
            rejected_word ==
                AnyIn({<<"r", "e", "j", "e", "c", "t", "e", "d">>,
                       <<"d", "e", "c", "l", "i", "n", "e", "d">>,
                       <<"n", "o", "t", " ", "a", "c", "c", "e", "p", "t", "e", "d">>}, v)
            offer_word ==
                AnyIn({<<"o", "f", "f", "e", "r">>,
                       <<"c", "o", "n", "d", "i", "t", "i", "o", "n", "a", "l">>,
                       <<"u", "n", "c", "o", "n", "d", "i", "t", "i", "o", "n", "a", "l">>,
                       <<"a", "c", "c", "e", "p", "t", "a", "n", "c", "e">>}, v)
        IN  (PatternStatus(args.table, args.page_text) = "None"
               /\ rejected_word /\ ~offer_word) =>
                out.found_status = "rejected"

\* C40: a login attempt whose page text could not be read after the steps
\* is not reported as logged in.
C40_UnreadPageIsNotLoggedIn ==
    (call = "verify_login" /\ args.read_failed) => out # "logged_in"

====
